---- MODULE Spec2Model ----
(***************************************************************************)
(* Model of the rental-comps engine of DSCR-Analyzer                       *)
(* (src/backend/mashvisor_search.py, class MashvisorPropertySearch).       *)
(*                                                                         *)
(* Encoding of Python values                                               *)
(*   - a dict is a TLA+ function whose DOMAIN is the set of keys present;  *)
(*     dict.get(k, d) is GetD, dict.get(k) is Get (None when absent);      *)
(*   - None is the integer None (-1); every real number of the model is    *)
(*     >= 0, so None never collides with a value; Text (-2) is a value     *)
(*     that is not a number (a non-empty str where a number is expected);  *)
(*   - a str is a sequence of one-character strings, so that lower() and   *)
(*     strip() are computed character by character;                        *)
(*   - bathrooms are counted in half bathrooms (2.5 baths = 5);            *)
(*   - distances are in thousandths of a mile until round(x, 2) turns      *)
(*     them into hundredths; float('inf') is Inf;                          *)
(*   - prices and square feet are integers; the float comparisons          *)
(*     |c - t| / t <= 0.1 ... and c / t < 0.5, > 2.0 are evaluated         *)
(*     exactly as 10 * |c - t| <= t ... (for integers far below 2^53 the   *)
(*     correctly rounded quotient compares with the literal as the         *)
(*     rational does).                                                     *)
(***************************************************************************)
EXTENDS Integers, Sequences, FiniteSets, TLC

VARIABLES
    mode,                   \* which entry point this run exercises
    pc,                     \* position inside the entry point
    target_property,        \* target dict of get_property_comps / of the unit call
    comp,                   \* unit calls: the comp dict handed to the scorer / filter
    include,                \* unit calls: value returned by _should_include_comp
    score,                  \* unit calls: value returned by _calculate_similarity_score
    all_comps,              \* get_property_comps: local accumulator all_comps
    city_neighborhoods,     \* the list handed to _find_closest_neighborhoods
    sorted_neighborhoods,   \* the list _find_closest_neighborhoods returned
    i,                      \* _get_neighborhood_based_comps: loop index (0-based)
    nb_comps,               \* _get_neighborhood_based_comps: its local all_comps
    result,                 \* list returned by get_property_comps
    calls,                  \* history: outbound calls issued, in order
    discovered,             \* history: passing candidates in discovery order
    inflight,               \* concurrent get_property_comps calls: the locals of each
    city_neighborhoods_cache,   \* routes/property.py: the module-level dict
    served,                 \* history: the route requests served, in order
    request,                \* the body of the route request being served
    next_prop,              \* search_properties: position of the loop (0-based)
    properties,             \* search_properties: the list fetch_properties returned
    fallback_rent,          \* search_properties: the per-request dict fallback_rent
    results,                \* search_properties: the local list results
    sorted_results          \* search_properties: the list returned

engineVars == <<mode, pc, target_property, comp, include, score, all_comps,
                city_neighborhoods, sorted_neighborhoods, i, nb_comps, result, calls,
                discovered>>

engineVars_but_pc == <<mode, target_property, comp, include, score, all_comps,
                       city_neighborhoods, sorted_neighborhoods, i, nb_comps, result,
                       calls, discovered>>

routeVars == <<inflight, city_neighborhoods_cache, served, request, next_prop,
               properties, fallback_rent, results, sorted_results>>

vars == <<engineVars, routeVars>>

----------------------------------------------------------------------------
(* Python values *)

None == -1

Text == -2

Inf == 999999999

Truthy(x) == x # None /\ x # 0

Get(d, k) == IF k \in DOMAIN d THEN d[k] ELSE None

GetD(d, k, default) == IF k \in DOMAIN d THEN d[k] ELSE default

Abs(x) == IF x < 0 THEN -x ELSE x

Min(a, b) == IF a <= b THEN a ELSE b

(* str: the empty string is << >>; comp.get("address", "") *)
GetStr(d, k) == IF k \in DOMAIN d THEN d[k] ELSE << >>

LowerChars == <<"a","b","c","d","e","f","g","h","i","j","k","l","m",
                "n","o","p","q","r","s","t","u","v","w","x","y","z">>

UpperChars == <<"A","B","C","D","E","F","G","H","I","J","K","L","M",
                "N","O","P","Q","R","S","T","U","V","W","X","Y","Z">>

Whitespace == {" ", "\t", "\n"}

(* str.lower() on one character, as a table *)
LowerTable ==
    [c \in {UpperChars[n] : n \in 1..Len(UpperChars)} |->
        LowerChars[CHOOSE n \in 1..Len(UpperChars) : UpperChars[n] = c]]

LowerChar(c) == IF c \in DOMAIN LowerTable THEN LowerTable[c] ELSE c

Lower(s) == [n \in 1..Len(s) |-> LowerChar(s[n])]

RECURSIVE LStrip(_)
LStrip(s) == IF s # << >> /\ Head(s) \in Whitespace THEN LStrip(Tail(s)) ELSE s

RECURSIVE RStrip(_)
RStrip(s) ==
    IF s # << >> /\ s[Len(s)] \in Whitespace
    THEN RStrip(SubSeq(s, 1, Len(s) - 1))
    ELSE s

Strip(s) == RStrip(LStrip(s))

----------------------------------------------------------------------------
(* _calculate_similarity_score *)

max_score == 100

BedroomPoints(c, t) ==
    IF Truthy(Get(c, "bedrooms")) /\ Truthy(Get(t, "bedrooms"))
    THEN IF c["bedrooms"] = t["bedrooms"] THEN 25
         ELSE IF Abs(c["bedrooms"] - t["bedrooms"]) = 1 THEN 15
         ELSE IF Abs(c["bedrooms"] - t["bedrooms"]) = 2 THEN 5
         ELSE 0
    ELSE 0

BathroomPoints(c, t) ==
    IF Truthy(Get(c, "bathrooms")) /\ Truthy(Get(t, "bathrooms"))
    THEN IF c["bathrooms"] = t["bathrooms"] THEN 20
         ELSE IF Abs(c["bathrooms"] - t["bathrooms"]) <= 1 THEN 15
         ELSE IF Abs(c["bathrooms"] - t["bathrooms"]) <= 2 THEN 8
         ELSE 0
    ELSE 0

PricePoints(c, t) ==
    IF Truthy(Get(c, "price")) /\ Truthy(Get(t, "price"))
    THEN IF c["price"] > 0 /\ t["price"] > 0
         THEN LET d == Abs(c["price"] - t["price"])
                  p == t["price"]
              IN  IF 10 * d <= p THEN 20
                  ELSE IF 10 * d <= 2 * p THEN 15
                  ELSE IF 10 * d <= 3 * p THEN 10
                  ELSE IF 10 * d <= 5 * p THEN 5
                  ELSE 0
         ELSE 0
    ELSE 0

SqftPoints(c, t) ==
    IF Truthy(Get(c, "sqft")) /\ Truthy(Get(t, "sqft"))
    THEN IF c["sqft"] > 0 /\ t["sqft"] > 0
         THEN LET d == Abs(c["sqft"] - t["sqft"])
                  p == t["sqft"]
              IN  IF 10 * d <= p THEN 15
                  ELSE IF 10 * d <= 2 * p THEN 12
                  ELSE IF 10 * d <= 3 * p THEN 8
                  ELSE IF 10 * d <= 5 * p THEN 4
                  ELSE 0
         ELSE 0
    ELSE 0

DistanceDefaultZero(c) ==
    IF Get(c, "neighborhood_distance_miles") # None
    THEN LET distance == c["neighborhood_distance_miles"]
         IN  IF distance <= 100 THEN 20
             ELSE IF distance <= 200 THEN 15
             ELSE IF distance <= 500 THEN 10
             ELSE IF distance <= 1000 THEN 5
             ELSE 0
    ELSE 0

DistanceDefaultNearest(c) ==
    IF Get(c, "neighborhood_distance_miles") # None
    THEN LET distance == c["neighborhood_distance_miles"]
         IN  IF distance <= 100 THEN 20
             ELSE IF distance <= 200 THEN 15
             ELSE IF distance <= 500 THEN 10
             ELSE IF distance <= 1000 THEN 5
             ELSE 0
    ELSE 20

(* comp["neighborhood_distance_miles"] is in hundredths of a mile *)
DistancePoints(c) ==
    IF Get(c, "neighborhood_distance_miles") # None
    THEN LET distance == c["neighborhood_distance_miles"]
         IN  IF distance <= 100 THEN 20
             ELSE IF distance <= 200 THEN 15
             ELSE IF distance <= 500 THEN 10
             ELSE IF distance <= 1000 THEN 5
             ELSE 0
    ELSE 10

LinearBedroomScore(c, t) ==
    Min((IF Truthy(Get(c, "bedrooms")) /\ Truthy(Get(t, "bedrooms"))
         THEN 25 - 10 * Abs(c["bedrooms"] - t["bedrooms"]) ELSE 0)
        + BathroomPoints(c, t) + PricePoints(c, t) + SqftPoints(c, t)
        + DistancePoints(c), max_score)

_calculate_similarity_score(c, t) ==
    Min(BedroomPoints(c, t) + BathroomPoints(c, t) + PricePoints(c, t)
        + SqftPoints(c, t) + DistancePoints(c), max_score)

----------------------------------------------------------------------------
(* _should_include_comp *)

_should_include_comp(c, t) ==
    IF GetStr(c, "address") = << >> \/ GetD(c, "price", 0) <= 0
    THEN FALSE
    ELSE IF /\ Truthy(Get(t, "bedrooms")) /\ Truthy(Get(c, "bedrooms"))
            /\ Abs(c["bedrooms"] - t["bedrooms"]) > 1
    THEN FALSE
    ELSE IF /\ Truthy(Get(t, "bathrooms")) /\ Truthy(Get(c, "bathrooms"))
            /\ Abs(c["bathrooms"] - t["bathrooms"]) > 2
    THEN FALSE
    ELSE IF /\ Truthy(Get(t, "price")) /\ Truthy(Get(c, "price"))
            /\ t["price"] > 0 /\ c["price"] > 0
            /\ (2 * c["price"] < t["price"] \/ c["price"] > 2 * t["price"])
    THEN FALSE
    ELSE TRUE

(* line 531: None <= 0 and 'x' <= 0 raise TypeError (unless the address test
   already returned False); lines 538, 545: abs('3' - 3) raises TypeError,
   reached only when both counts are truthy and no earlier rule returned *)
FilterRaises(c, t) ==
    IF GetStr(c, "address") = << >> THEN FALSE
    ELSE IF GetD(c, "price", 0) \in {None, Text} THEN TRUE
    ELSE IF GetD(c, "price", 0) <= 0 THEN FALSE
    ELSE IF Truthy(Get(t, "bedrooms")) /\ Get(c, "bedrooms") = Text THEN TRUE
    ELSE IF /\ Truthy(Get(t, "bedrooms")) /\ Truthy(Get(c, "bedrooms"))
            /\ Abs(c["bedrooms"] - t["bedrooms"]) > 1
    THEN FALSE
    ELSE Truthy(Get(t, "bathrooms")) /\ Get(c, "bathrooms") = Text

----------------------------------------------------------------------------
(* list.sort(key=similarity_score, reverse=True): stable, descending *)

ScoreOf(c) == GetD(c, "similarity_score", 0)

InsertDescBeforeEqual(x, s) ==
    LET k == Cardinality({n \in 1..Len(s) : ScoreOf(s[n]) > ScoreOf(x)})
    IN  SubSeq(s, 1, k) \o <<x>> \o SubSeq(s, k + 1, Len(s))

InsertDesc(x, s) ==
    LET k == Cardinality({n \in 1..Len(s) : ScoreOf(s[n]) >= ScoreOf(x)})
    IN  SubSeq(s, 1, k) \o <<x>> \o SubSeq(s, k + 1, Len(s))

RECURSIVE SortByScoreDesc(_)
SortByScoreDesc(s) ==
    IF s = << >> THEN << >>
    ELSE InsertDesc(s[Len(s)], SortByScoreDesc(SubSeq(s, 1, Len(s) - 1)))

Take(s, n) == SubSeq(s, 1, Min(n, Len(s)))

----------------------------------------------------------------------------
(* Upstream responses.  A response is [status, body]:                      *)
(*   network_error  requests.get raises                                    *)
(*   http_error     status_code # 200                                      *)
(*   bad_json       response.json() raises                                 *)
(*   not_success    payload whose status is not "success" or without content *)
(*   ok             a success payload; body is the list of raw records     *)

FailureKinds == {"network_error", "http_error", "bad_json", "not_success"}

Failure(kind) == [status |-> kind, body |-> << >>]

Ok(body) == [status |-> "ok", body |-> body]

(* What a fetch hands back: raised = TRUE when an exception leaves it *)
Returned(v) == [raised |-> FALSE, value |-> v]

Raised == [raised |-> TRUE, value |-> << >>]

----------------------------------------------------------------------------
(* get_long_term_comps_direct *)

DirectSource == "Mashvisor Long-term Comps API"

NeighborhoodSource == "Mashvisor Neighborhood API"

FormatDirect(raw) ==
    [address   |-> GetStr(raw, "address"),
     price     |-> GetD(raw, "price", 0),
     rent      |-> GetD(raw, "rent", GetD(raw, "price", 0)),
     bedrooms  |-> GetD(raw, "bedrooms", GetD(raw, "beds", 0)),
     bathrooms |-> GetD(raw, "bathrooms", GetD(raw, "baths", 0)),
     sqft      |-> GetD(raw, "sqft", 0),
     source    |-> DirectSource]

WithScore(c, t) == c @@ ("similarity_score" :> _calculate_similarity_score(c, t))

(* the formatted records that pass the filter, scored, in upstream order *)
PassingScored(formatted, t) ==
    LET Pass(c) == _should_include_comp(c, t)
        kept == SelectSeq(formatted, Pass)
    IN  [n \in 1..Len(kept) |-> WithScore(kept[n], t)]

(* filtering raises on one of the records of the response *)
DirectRaises(resp, t) ==
    \E n \in 1..Len(resp.body) : FilterRaises(FormatDirect(resp.body[n]), t)

(* the candidates the loop of lines 210-230 leaves behind: none when it is
   left by an exception *)
DirectCandidates(resp, t) ==
    IF DirectRaises(resp, t) THEN << >>
    ELSE PassingScored([n \in 1..Len(resp.body) |-> FormatDirect(resp.body[n])], t)

DirectParamsNarrowBand(t) ==
    IF Truthy(Get(t, "price"))
    THEN [min_price |-> (3 * t["price"]) \div 4, max_price |-> (3 * t["price"]) \div 2]
    ELSE << >>

(* lines 148-159: the price band asked of the direct source; for an integer
   price int(p * 0.5) is p \div 2 and int(p * 1.5) is 3p \div 2 *)
DirectParams(t) ==
    IF Truthy(Get(t, "price"))
    THEN [min_price |-> t["price"] \div 2, max_price |-> (3 * t["price"]) \div 2]
    ELSE << >>

DirectExceptionPropagates == Raised

(* lines 247-249: except Exception -> return [] *)
DirectOnException == Returned(<< >>)

get_long_term_comps_direct_top10(resp, t) ==
    IF resp.status \in {"network_error", "bad_json"} THEN DirectOnException
    ELSE IF resp.status # "ok" \/ resp.body = << >> THEN Returned(<< >>)
    ELSE Returned(Take(SortByScoreDesc(DirectCandidates(resp, t)), 10))

get_long_term_comps_direct(resp, t) ==
    IF resp.status \in {"network_error", "bad_json"} THEN DirectOnException
    ELSE IF resp.status # "ok" \/ resp.body = << >> THEN Returned(<< >>)
    ELSE IF DirectRaises(resp, t) THEN DirectOnException
    ELSE Returned(Take(SortByScoreDesc(DirectCandidates(resp, t)), 15))

----------------------------------------------------------------------------
(* _calculate_distance.  Coordinates are in hundredths of a degree, the    *)
(* result in thousandths of a mile.  All coordinates the model draws that  *)
(* reach the formula (none of the four is None or 0) share one longitude,  *)
(* and for dlon = 0 the haversine formula is c = |dlat| (radians),         *)
(* distance = 3956 * |dlat| = 0.690452 miles per hundredth of a degree.    *)

MicroMilesPerUnit == 690452

_calculate_distance(lat1, lon1, lat2, lon2) ==
    IF ~(Truthy(lat1) /\ Truthy(lon1) /\ Truthy(lat2) /\ Truthy(lon2))
    THEN Inf
    ELSE CASE lon1 = lon2 -> (MicroMilesPerUnit * Abs(lat2 - lat1)) \div 1000

(* round(x, 2): thousandths of a mile to hundredths; round(inf, 2) = inf *)
Round2(x) == IF x = Inf THEN Inf ELSE (x + 5) \div 10

----------------------------------------------------------------------------
(* get_city_neighborhoods *)

NeighborhoodData(hood) ==
    [id        |-> Get(hood, "id"),
     latitude  |-> Get(hood, "latitude"),
     longitude |-> Get(hood, "longitude")]

(* lines 423-425: except Exception -> return [] *)
LookupOnException == Returned(<< >>)

get_city_neighborhoods(resp) ==
    IF resp.status \in {"network_error", "bad_json"} THEN LookupOnException
    ELSE IF resp.status # "ok" \/ resp.body = << >> THEN Returned(<< >>)
    ELSE Returned([n \in 1..Len(resp.body) |-> NeighborhoodData(resp.body[n])])

----------------------------------------------------------------------------
(* _find_closest_neighborhoods *)

DistanceOf(hood) == GetD(hood, "distance_miles", Inf)

InsertAsc(x, s) ==
    LET k == Cardinality({n \in 1..Len(s) : DistanceOf(s[n]) <= DistanceOf(x)})
    IN  SubSeq(s, 1, k) \o <<x>> \o SubSeq(s, k + 1, Len(s))

RECURSIVE SortByDistance(_)
SortByDistance(s) ==
    IF s = << >> THEN << >>
    ELSE InsertAsc(s[Len(s)], SortByDistance(SubSeq(s, 1, Len(s) - 1)))

_find_closest_neighborhoods_any_coordinate(neighborhoods, zipcode, latitude, longitude) ==
    IF neighborhoods = << >> THEN neighborhoods
    ELSE IF latitude # None \/ longitude # None
    THEN SortByDistance(
            [n \in 1..Len(neighborhoods) |->
                neighborhoods[n] @@
                ("distance_miles" :>
                    _calculate_distance(latitude, longitude,
                                        Get(neighborhoods[n], "latitude"),
                                        Get(neighborhoods[n], "longitude")))])
    ELSE neighborhoods

_find_closest_neighborhoods(neighborhoods, zipcode, latitude, longitude) ==
    IF neighborhoods = << >> THEN neighborhoods
    ELSE IF latitude # None /\ longitude # None
    THEN SortByDistance(
            [n \in 1..Len(neighborhoods) |->
                neighborhoods[n] @@
                ("distance_miles" :>
                    _calculate_distance(latitude, longitude,
                                        Get(neighborhoods[n], "latitude"),
                                        Get(neighborhoods[n], "longitude")))])
    ELSE neighborhoods

----------------------------------------------------------------------------
(* _get_traditional_listings_by_neighborhood_enhanced *)

FormatListingFiniteDistance(raw, neighborhood_distance) ==
    LET c == [address   |-> GetStr(raw, "address"),
              price     |-> GetD(raw, "price", 0),
              rent      |-> GetD(raw, "price", 0),
              bedrooms  |-> GetD(raw, "beds", GetD(raw, "bedrooms", 0)),
              bathrooms |-> GetD(raw, "baths", GetD(raw, "bathrooms", 0)),
              sqft      |-> GetD(raw, "sqft", 0),
              source    |-> NeighborhoodSource]
    IN  IF neighborhood_distance # None /\ neighborhood_distance # Inf
        THEN c @@ ("neighborhood_distance_miles" :> Round2(neighborhood_distance))
        ELSE c

FormatListing(raw, neighborhood_distance) ==
    LET c == [address   |-> GetStr(raw, "address"),
              price     |-> GetD(raw, "price", 0),
              rent      |-> GetD(raw, "price", 0),
              bedrooms  |-> GetD(raw, "beds", GetD(raw, "bedrooms", 0)),
              bathrooms |-> GetD(raw, "baths", GetD(raw, "bathrooms", 0)),
              sqft      |-> GetD(raw, "sqft", 0),
              source    |-> NeighborhoodSource]
    IN  IF neighborhood_distance # None
        THEN c @@ ("neighborhood_distance_miles" :> Round2(neighborhood_distance))
        ELSE c

ListingRaises(resp, t, neighborhood_distance) ==
    \E n \in 1..Len(resp.body) :
        FilterRaises(FormatListing(resp.body[n], neighborhood_distance), t)

ListingCandidates(resp, t, neighborhood_distance) ==
    IF ListingRaises(resp, t, neighborhood_distance) THEN << >>
    ELSE PassingScored([n \in 1..Len(resp.body) |->
                           FormatListing(resp.body[n], neighborhood_distance)], t)

ListingExceptionPropagates == Raised

(* lines 524-526: except Exception -> return [] *)
ListingOnException == Returned(<< >>)

_get_traditional_listings_by_neighborhood_top15(resp, t, neighborhood_distance) ==
    IF resp.status \in {"network_error", "bad_json"} THEN ListingOnException
    ELSE IF resp.status # "ok" \/ resp.body = << >> THEN Returned(<< >>)
    ELSE Returned(Take(SortByScoreDesc(
                           ListingCandidates(resp, t, neighborhood_distance)), 15))

_get_traditional_listings_by_neighborhood_enhanced(resp, t, neighborhood_distance) ==
    IF resp.status \in {"network_error", "bad_json"} THEN ListingOnException
    ELSE IF resp.status # "ok" \/ resp.body = << >> THEN Returned(<< >>)
    ELSE IF ListingRaises(resp, t, neighborhood_distance) THEN ListingOnException
    ELSE Returned(Take(SortByScoreDesc(
                           ListingCandidates(resp, t, neighborhood_distance)), 10))

----------------------------------------------------------------------------
(* get_property_comps, lines 290-316: deduplicate, sort, truncate *)

address_key_case_sensitive(c) == Strip(GetStr(c, "address"))

address_key(c) == Strip(Lower(GetStr(c, "address")))

RECURSIVE UniqueKeepsBlank(_, _)
UniqueKeepsBlank(comps, seen_addresses) ==
    IF comps = << >> THEN << >>
    ELSE LET key == address_key(Head(comps))
         IN  IF key \notin seen_addresses
             THEN <<Head(comps)>> \o UniqueKeepsBlank(Tail(comps), seen_addresses \cup {key})
             ELSE UniqueKeepsBlank(Tail(comps), seen_addresses)

RECURSIVE UniqueKeepsLast(_, _)
UniqueKeepsLast(comps, seen_addresses) ==
    IF comps = << >> THEN << >>
    ELSE LET key == address_key(Head(comps))
             later == {address_key(comps[n]) : n \in 2..Len(comps)}
         IN  IF key # << >> /\ key \notin seen_addresses /\ key \notin later
             THEN <<Head(comps)>> \o UniqueKeepsLast(Tail(comps), seen_addresses \cup {key})
             ELSE UniqueKeepsLast(Tail(comps), seen_addresses)

RECURSIVE Unique(_, _)
Unique(comps, seen_addresses) ==
    IF comps = << >> THEN << >>
    ELSE LET key == address_key(Head(comps))
         IN  IF key # << >> /\ key \notin seen_addresses
             THEN <<Head(comps)>> \o Unique(Tail(comps), seen_addresses \cup {key})
             ELSE Unique(Tail(comps), seen_addresses)

unique_comps(comps) == Unique(comps, {})

final_comps_untruncated(comps) ==
    IF comps # << >>
    THEN SortByScoreDesc(unique_comps(comps))
    ELSE << >>

final_comps(comps) ==
    IF comps # << >>
    THEN Take(SortByScoreDesc(unique_comps(comps)), 15)
    ELSE << >>

----------------------------------------------------------------------------
(* Inputs: targets, raw upstream records, upstream responses *)

MaxDirectLen == 2

TargetWithSqft(city, state, bedrooms, bathrooms, latitude, longitude, price) ==
    [city      |-> city,
     state     |-> state,
     zipcode   |-> "78701",
     bedrooms  |-> bedrooms,
     bathrooms |-> bathrooms,
     latitude  |-> latitude,
     longitude |-> longitude,
     price     |-> price,
     sqft      |-> 1500]

Target(city, state, bedrooms, bathrooms, latitude, longitude, price) ==
    [city      |-> city,
     state     |-> state,
     zipcode   |-> "78701",
     bedrooms  |-> bedrooms,
     bathrooms |-> bathrooms,
     latitude  |-> latitude,
     longitude |-> longitude,
     price     |-> price]

AggTargets ==
    {Target("Austin", "TX", 3, 4, 1, 1, 100),
     Target("Austin", "TX", None, None, None, None, None),
     Target("", "TX", None, None, None, None, None),
     Target("Austin", "", 3, 4, 1, 1, 101)}

(* raw records of the direct comps source *)
DirectRecords ==
    {[address |-> <<"A">>, price |-> 100, bedrooms |-> 3, bathrooms |-> 4,
      sqft |-> 1500],
     [address |-> <<" ", "a", " ">>, price |-> 130, beds |-> 2, baths |-> 4],
     [address |-> <<"B">>, price |-> 100, rent |-> 90, bedrooms |-> 3, bathrooms |-> 4],
     [address |-> <<" ">>, price |-> 100],
     [price |-> 100, bedrooms |-> 3],
     [address |-> <<"C">>, bedrooms |-> 3]}

(* raw records of the per-neighborhood listings source *)
ListingRecords ==
    {[address |-> <<"a">>, price |-> 100, beds |-> 3, baths |-> 4, sqft |-> 1500],
     [address |-> <<"D">>, price |-> 120, rent |-> 110, bedrooms |-> 4],
     [address |-> <<"d", " ">>, price |-> 100, beds |-> 3, baths |-> 4]}

(* a long response: n records with pairwise distinct one-letter addresses *)
BulkRecord(n) ==
    [address |-> <<UpperChars[n]>>, price |-> 100 + 10 * (n % 4),
     bedrooms |-> 3, bathrooms |-> 4]

BulkBody(len, offset) == [n \in 1..len |-> BulkRecord(offset + n)]

RECURSIVE SeqsUpTo(_, _)
SeqsUpTo(S, n) ==
    IF n = 0 THEN {<< >>}
    ELSE LET shorter == SeqsUpTo(S, n - 1)
         IN  shorter \cup {Append(s, x) : s \in shorter, x \in S}

(* five records that pass the filter and share one normalized address, and
   five whose address is only whitespace *)
SameAddressBody ==
    [n \in 1..5 |-> [address |-> IF n % 2 = 1 THEN <<"A">> ELSE <<" ", "a", " ">>,
                     price |-> 100, bedrooms |-> 3, bathrooms |-> 4]]

BlankAddressBody ==
    [n \in 1..5 |-> [address |-> <<" ">>, price |-> 100 + n]]

(* responses with a valid record and a record with a null or non-numeric
   field *)
ValidDirectRecord == [address |-> <<"A">>, price |-> 100, bedrooms |-> 3, bathrooms |-> 4]

IllTypedDirectBodies ==
    {<<ValidDirectRecord, [address |-> <<"N">>, price |-> None]>>,
     <<ValidDirectRecord, [price |-> None]>>,
     <<ValidDirectRecord, [address |-> <<"N">>, price |-> 100, bedrooms |-> None]>>,
     <<ValidDirectRecord, [address |-> <<"N">>, price |-> 100, bedrooms |-> Text]>>}

IllTypedListingBodies ==
    {<<[address |-> <<"E">>, price |-> 100, beds |-> 3, baths |-> 4],
       [address |-> <<"N">>, price |-> Text]>>}

DirectResponses ==
    {Failure(k) : k \in FailureKinds}
    \cup {Ok(b) : b \in SeqsUpTo(DirectRecords, MaxDirectLen)}
    \cup {Ok(BulkBody(4, 20)), Ok(BulkBody(5, 0)), Ok(BulkBody(20, 0)),
          Ok(<<[address |-> <<" ">>, price |-> 100, bedrooms |-> 3,
                bathrooms |-> 4]>> \o BulkBody(19, 0)),
          Ok(SameAddressBody), Ok(BlankAddressBody)}
    \cup {Ok(b) : b \in IllTypedDirectBodies}

(* a city with many neighborhoods: ids 11 .. 10 + len, the first the
   farthest north *)
ManyNeighborhoods(len) ==
    [n \in 1..len |-> [id |-> 10 + n, latitude |-> 20 - n, longitude |-> 1]]

Neighborhoods ==
    {<<[id |-> 1, latitude |-> 1, longitude |-> 1]>>,
     <<[id |-> 2, latitude |-> 3, longitude |-> 1],
       [id |-> 1, latitude |-> 1, longitude |-> 1]>>,
     <<[id |-> 3], [id |-> 1, latitude |-> 1, longitude |-> 1]>>,
     <<[latitude |-> 1, longitude |-> 1],
       [id |-> 2, latitude |-> 3, longitude |-> 1]>>,
     <<[id |-> 2, latitude |-> 3, longitude |-> 1],
       [id |-> 1, latitude |-> 1, longitude |-> 1],
       [id |-> 11, latitude |-> 5, longitude |-> 1]>>,
     ManyNeighborhoods(9),
     [ManyNeighborhoods(10) EXCEPT ![3] = [latitude |-> 17, longitude |-> 1]]}

LookupResponses ==
    {Failure(k) : k \in FailureKinds} \cup {Ok(<< >>)}
    \cup {Ok(b) : b \in Neighborhoods}

ListingResponses ==
    {Failure(k) : k \in FailureKinds} \cup {Ok(<< >>)}
    \cup {Ok(<<r>>) : r \in ListingRecords}
    \cup {Ok(BulkBody(10, 0)), Ok(BulkBody(10, 10)), Ok(BulkBody(16, 4))}
    \cup {Ok(b) : b \in IllTypedListingBodies}

(* the listings a neighborhood can answer with: neighborhoods 1 and 3 answer
   anything, neighborhood 2 fails in one way or answers with well-typed
   records, 11 and 12 have no listings or fail, the others have none *)
ListingResponsesOf(hood_id) ==
    IF hood_id = 2
    THEN {Failure("network_error"), Ok(<< >>), Ok(BulkBody(10, 10)), Ok(BulkBody(16, 4))}
         \cup {Ok(<<r>>) : r \in ListingRecords}
    ELSE IF hood_id < 10 THEN ListingResponses
    ELSE IF hood_id <= 12 THEN {Ok(<< >>), Failure("network_error")}
    ELSE {Ok(<< >>)}

(* direct calls of _find_closest_neighborhoods: the list and the target
   location.  In ScenarioNeighborhoods A is id 21 and B is id 22, both in
   degrees * 100.  The zip code is only read by "if zipcode", for which None
   and the empty string are the same; no zip code is "". *)
ScenarioNeighborhoods ==
    <<[id |-> 21, latitude |-> 1000, longitude |-> 1000],
      [id |-> 22, latitude |-> 0, longitude |-> 0]>>

RankNeighborhoods ==
    {<< >>,
     <<[id |-> 2, latitude |-> 3, longitude |-> 1],
       [id |-> 3],
       [id |-> 1, latitude |-> 1, longitude |-> 1],
       [id |-> 4, latitude |-> 3, longitude |-> 1]>>,
     <<[id |-> 5, latitude |-> 1],
       [id |-> 6, latitude |-> 0, longitude |-> 1]>>,
     <<[id |-> 7, latitude |-> 3, longitude |-> 1],
       [id |-> 8, latitude |-> 0, longitude |-> 1]>>}

RankLocations ==
    {[zipcode |-> z, latitude |-> la, longitude |-> lo] :
        z \in {"", "78701"}, la \in {None, 0, 1}, lo \in {None, 1}}

RankInputs ==
    {[neighborhoods |-> n, location |-> l] : n \in RankNeighborhoods, l \in RankLocations}
    \cup {[neighborhoods |-> ScenarioNeighborhoods,
           location |-> [zipcode |-> "", latitude |-> 0, longitude |-> 0]]}

EmptyDict == << >>

Opt(key, values) == {EmptyDict} \cup {key :> v : v \in values}

FilterComps ==
    {a @@ p @@ b @@ h :
        a \in Opt("address", {<< >>, <<"A">>, <<" ">>}),
        p \in Opt("price", {0, 49, 50, 100, 200, 201, None, Text}),
        b \in Opt("bedrooms", {0, 1, 2, 4, None, Text}),
        h \in Opt("bathrooms", {0, 2, 4, 7, None, Text})}

FilterTargets ==
    {[bedrooms |-> b, bathrooms |-> h, price |-> p] :
        b \in {None, 0, 2}, h \in {None, 0, 4}, p \in {None, 100}}

ScoreComps ==
    {p @@ b @@ h @@ s @@ d :
        p \in Opt("price", {110, 120, 150, 151}),
        b \in Opt("bedrooms", {0, 2, 3, 4, 5}),
        h \in Opt("bathrooms", {4, 5, 7}),
        s \in Opt("sqft", {100, 125}),
        d \in Opt("neighborhood_distance_miles", {100, 500, 1001, Inf})}
    \cup {[bedrooms |-> 3, bathrooms |-> 4, price |-> 295000, sqft |-> 1480,
           neighborhood_distance_miles |-> 50]}

ScoreTargets ==
    {[bedrooms |-> b, bathrooms |-> h, price |-> p, sqft |-> s] :
        b \in {None, 0, 2}, h \in {None, 4}, p \in {None, 100}, s \in {None, 100}}
    \cup {[bedrooms |-> 3, bathrooms |-> 4, price |-> 300000, sqft |-> 1500]}

----------------------------------------------------------------------------
(* Initial states: one call of get_property_comps, or one direct call of   *)
(* the filter / the scorer (as src/test_enhanced_comps.py makes them)      *)

RouteIdle ==
    /\ inflight = << >>
    /\ city_neighborhoods_cache = EmptyDict
    /\ served = << >>
    /\ request = EmptyDict
    /\ next_prop = 0
    /\ properties = << >>
    /\ fallback_rent = EmptyDict
    /\ results = << >>
    /\ sorted_results = << >>

EngineIdle ==
    /\ target_property = EmptyDict
    /\ comp = EmptyDict
    /\ include = FALSE
    /\ score = 0
    /\ all_comps = << >>
    /\ city_neighborhoods = << >>
    /\ sorted_neighborhoods = << >>
    /\ i = 0
    /\ nb_comps = << >>
    /\ result = << >>
    /\ calls = << >>
    /\ discovered = << >>

Idle ==
    /\ RouteIdle
    /\ include = FALSE
    /\ score = 0
    /\ all_comps = << >>
    /\ city_neighborhoods = << >>
    /\ sorted_neighborhoods = << >>
    /\ i = 0
    /\ nb_comps = << >>
    /\ result = << >>
    /\ calls = << >>
    /\ discovered = << >>

InitAggregate ==
    /\ mode = "aggregate"
    /\ pc = "start"
    /\ target_property \in AggTargets
    /\ comp = EmptyDict
    /\ Idle

InitFilterTest ==
    /\ mode = "filter_test"
    /\ pc = "unit"
    /\ target_property \in FilterTargets
    /\ comp \in FilterComps
    /\ Idle

InitScoreTest ==
    /\ mode = "score_test"
    /\ pc = "unit"
    /\ target_property \in ScoreTargets
    /\ comp \in ScoreComps
    /\ Idle

InitRankTest ==
    /\ mode = "rank_test"
    /\ pc = "unit"
    /\ \E input \in RankInputs :
          /\ target_property = input.location
          /\ city_neighborhoods = input.neighborhoods
    /\ comp = EmptyDict
    /\ RouteIdle
    /\ include = FALSE
    /\ score = 0
    /\ all_comps = << >>
    /\ sorted_neighborhoods = << >>
    /\ i = 0
    /\ nb_comps = << >>
    /\ result = << >>
    /\ calls = << >>
    /\ discovered = << >>

Init == InitAggregate \/ InitFilterTest \/ InitScoreTest \/ InitRankTest

----------------------------------------------------------------------------
(* get_property_comps.  One action per outbound call: the action takes the *)
(* upstream response and runs the code up to the next outbound call or to  *)
(* the return.                                                             *)

max_neighborhoods_to_check == 8

Tag(candidates, src) == [n \in 1..Len(candidates) |-> [comp |-> candidates[n], src |-> src]]

(* history record of one outbound call; pos is the 0-based position of the
   neighborhood in the ranked list (None for the other calls) *)
Call(kind, hood, pos, resp, filter_raised) ==
    [kind |-> kind, hood |-> hood, pos |-> pos, status |-> resp.status,
     filter_raised |-> filter_raised]

(* lines 290-316: return final_comps *)
Return(comps) ==
    /\ all_comps' = comps
    /\ result' = final_comps(comps)
    /\ pc' = "done"

(* lines 318-322: except Exception -> return [] *)
ReturnOnException ==
    /\ all_comps' = all_comps
    /\ result' = << >>
    /\ pc' = "done"

NextHoodUncapped(hoods, from) ==
    LET eligible == {p \in from..(Len(hoods) - 1) : Truthy(hoods[p + 1].id)}
    IN  IF eligible = {} THEN None
        ELSE CHOOSE p \in eligible : \A q \in eligible : p <= q

NextHoodReplacesSkipped(hoods, from) ==
    LET eligible == {p \in from..(Len(hoods) - 1) :
                        /\ Truthy(hoods[p + 1].id)
                        /\ Cardinality({q \in 0..(p - 1) : Truthy(hoods[q + 1].id)})
                               < max_neighborhoods_to_check}
    IN  IF eligible = {} THEN None
        ELSE CHOOSE p \in eligible : \A q \in eligible : p <= q

(* lines 352-361: the next position (0-based) whose neighborhood is queried *)
NextHood(hoods, from) ==
    LET eligible == {p \in from..(Min(max_neighborhoods_to_check, Len(hoods)) - 1) :
                        Truthy(hoods[p + 1].id)}
    IN  IF eligible = {} THEN None
        ELSE CHOOSE p \in eligible : \A q \in eligible : p <= q

(* What the code between two outbound calls computes.  (The actions bind  *)
(* these values with \E over a singleton, which evaluates them once.)      *)

Extend(list, more) == IF more # << >> THEN list \o more ELSE list

RankedNeighborhoods(r, t) ==
    _find_closest_neighborhoods(r.value, t.zipcode, t.latitude, t.longitude)

NeedsSupplementAfterDedup(comps) == Len(unique_comps(comps)) < 5

NeedsSupplementBelowSix(comps) == Len(comps) < 6

(* line 283: if len(all_comps) < 5 *)
NeedsSupplement(comps) == Len(comps) < 5

(* lines 273-283: the direct comps call *)
CallDirect ==
    /\ mode = "aggregate" /\ pc = "start"
    /\ \E resp \in DirectResponses :
       \E r \in {get_long_term_comps_direct(resp, target_property)} :
       \E comps \in {Extend(all_comps, r.value)} :
            /\ calls' = Append(calls, Call("direct", None, None, resp,
                                            DirectRaises(resp, target_property))
                                       @@ ("params" :> DirectParams(target_property)))
            /\ discovered' = discovered \o Tag(DirectCandidates(resp, target_property), 0)
            /\ IF r.raised THEN ReturnOnException
               ELSE IF NeedsSupplement(comps)
               THEN /\ all_comps' = comps
                    /\ pc' = "lookup"
                    /\ result' = result
               ELSE Return(comps)
    /\ UNCHANGED <<mode, target_property, comp, include, score, city_neighborhoods,
                   sorted_neighborhoods, i, nb_comps>>
    /\ UNCHANGED routeVars

(* lines 285, 326-354: the neighborhood lookup and the ranking *)
CallLookup ==
    /\ mode = "aggregate" /\ pc = "lookup"
    /\ \E resp \in LookupResponses :
       \E r \in {get_city_neighborhoods(resp)} :
       \E ranked \in {RankedNeighborhoods(r, target_property)} :
       \E p \in {NextHood(ranked, 0)} :
            /\ calls' = Append(calls, Call("lookup", None, None, resp, FALSE))
            /\ city_neighborhoods' = r.value
            /\ IF r.raised \/ r.value = << >> \/ p = None
               THEN /\ Return(all_comps)
                    /\ sorted_neighborhoods' = ranked
                    /\ i' = i
               ELSE /\ sorted_neighborhoods' = ranked
                    /\ i' = p
                    /\ pc' = "listing"
                    /\ UNCHANGED <<all_comps, result>>
    /\ UNCHANGED <<mode, target_property, comp, include, score, nb_comps, discovered>>
    /\ UNCHANGED routeVars

(* lines 356-379, 286-288: one per-neighborhood listing call *)
CallListing ==
    /\ mode = "aggregate" /\ pc = "listing"
    /\ \E hood \in {sorted_neighborhoods[i + 1]} :
       \E resp \in ListingResponsesOf(hood.id) :
       \E distance \in {Get(hood, "distance_miles")} :
       \E r \in {_get_traditional_listings_by_neighborhood_enhanced(
                     resp, target_property, distance)} :
       \E found \in {Extend(nb_comps, r.value)} :
       \E p \in {IF r.value # << >> /\ Len(found) >= 15
                 THEN None ELSE NextHood(sorted_neighborhoods, i + 1)} :
            /\ calls' = Append(calls, Call("listing", hood.id, i, resp,
                                       ListingRaises(resp, target_property, distance)))
            /\ discovered' = discovered \o
                   Tag(ListingCandidates(resp, target_property, distance), i + 1)
            /\ IF r.raised
               THEN /\ Return(all_comps)
                    /\ UNCHANGED <<i, nb_comps>>
               ELSE IF p = None
               THEN /\ Return(Extend(all_comps, found))
                    /\ nb_comps' = found
                    /\ i' = i
               ELSE /\ nb_comps' = found
                    /\ i' = p
                    /\ UNCHANGED <<all_comps, result, pc>>
    /\ UNCHANGED <<mode, target_property, comp, include, score, city_neighborhoods,
                   sorted_neighborhoods>>
    /\ UNCHANGED routeVars

(* a direct call of _should_include_comp *)
CallShouldInclude ==
    /\ mode = "filter_test" /\ pc = "unit"
    /\ IF FilterRaises(comp, target_property)
       THEN include' = include /\ pc' = "raised"
       ELSE include' = _should_include_comp(comp, target_property) /\ pc' = "filtered"
    /\ UNCHANGED <<mode, target_property, comp, score, all_comps,
                   city_neighborhoods, sorted_neighborhoods, i, nb_comps, result,
                   calls, discovered>>
    /\ UNCHANGED routeVars

(* a direct call of _calculate_similarity_score *)
CallScore ==
    /\ mode = "score_test" /\ pc = "unit"
    /\ score' = _calculate_similarity_score(comp, target_property)
    /\ pc' = "scored"
    /\ UNCHANGED <<mode, target_property, comp, include, all_comps,
                   city_neighborhoods, sorted_neighborhoods, i, nb_comps, result,
                   calls, discovered>>
    /\ UNCHANGED routeVars

(* a direct call of _find_closest_neighborhoods *)
CallRank ==
    /\ mode = "rank_test" /\ pc = "unit"
    /\ sorted_neighborhoods' =
           _find_closest_neighborhoods(city_neighborhoods, target_property.zipcode,
                                       target_property.latitude,
                                       target_property.longitude)
    /\ pc' = "ranked"
    /\ UNCHANGED <<mode, target_property, comp, include, score, all_comps,
                   city_neighborhoods, i, nb_comps, result, calls, discovered>>
    /\ UNCHANGED routeVars

Next ==
    \/ CallDirect \/ CallLookup \/ CallListing
    \/ CallShouldInclude \/ CallScore \/ CallRank

Spec == Init /\ [][Next]_vars

----------------------------------------------------------------------------
(* routes/property.py, search_properties (POST /search; the same code is   *)
(* main.py, POST /api/search).                                             *)
(*   - money is in dollars, monthly_payment and insurance_cost in cents,   *)
(*     dscr in hundredths, tax_rate in ten-thousandths (0.0125 = 125);     *)
(*   - every request of the model has down_payment 20 and interest_rate 0, *)
(*     for which estimate_mortgage_payment is                              *)
(*     price * 0.8 / 360 + price * tax_rate / 12 + hoa + price * 0.0035/12 *)

DigitChars == <<"0", "1", "2", "3", "4", "5", "6", "7", "8", "9">>

(* str(n) of a natural number *)
RECURSIVE Str(_)
Str(n) ==
    IF n < 10 THEN <<DigitChars[n + 1]>>
    ELSE Str(n \div 10) \o <<DigitChars[(n % 10) + 1]>>

(* round(n / d) of Python: to the nearest, ties to even *)
RoundDiv(n, d) ==
    LET q == n \div d
        r == n % d
    IN  IF 2 * r < d THEN q
        ELSE IF 2 * r > d THEN q + 1
        ELSE IF q % 2 = 0 THEN q ELSE q + 1

(* address.split(): raises IndexError at [-1] when the address is only
   whitespace *)
SplitIsEmpty(address) == RStrip(address) = << >>

(* address.split()[-1] *)
LastWord(address) ==
    LET t == RStrip(address)
        blanks == {n \in 1..Len(t) : t[n] \in Whitespace}
    IN  IF blanks = {} THEN t
        ELSE SubSeq(t, (CHOOSE n \in blanks : \A m \in blanks : m <= n) + 1, Len(t))

(* line 41 (a str that is None or "" is << >>: the code only tests its truth) *)
Zipcode(address) == IF address = << >> THEN << >> ELSE LastWord(address)

(* lines 61, 70: f"{zipcode}-{bedrooms}" *)
FallbackKey(zipcode, bedrooms) == zipcode \o <<"-">> \o Str(bedrooms)

default_tax_rate == 125

(* line 42 *)
HoaFee(prop) ==
    IF Truthy(Get(prop, "hoaFee")) THEN prop["hoaFee"]
    ELSE IF Truthy(Get(GetD(prop, "priceComponent", EmptyDict), "hoa"))
    THEN prop["priceComponent"]["hoa"]
    ELSE 0

(* line 43 *)
TaxRate(prop) ==
    IF Truthy(Get(prop, "propertyTaxRate")) THEN prop["propertyTaxRate"]
    ELSE default_tax_rate

(* services/finance.py, for down_payment_pct 0.2 and interest_rate 0 *)
estimate_mortgage_payment(price, tax_rate, hoa_fee) ==
    RoundDiv(price * (800 + 3 * (tax_rate + 35)), 3600) + 100 * hoa_fee

(* lines 46-49: the listing is skipped *)
Skipped(prop, req) ==
    \/ ~ Truthy(Get(prop, "price"))
    \/ GetStr(prop, "address") = << >>
    \/ ~ Truthy(Get(prop, "bedrooms"))
    \/ Zipcode(GetStr(prop, "address")) = << >>
    \/ GetStr(prop, "zpid") = << >>
    \/ prop["price"] < req.min_price
    \/ (req.max_price > 0 /\ prop["price"] > req.max_price)

(* lines 62, 69: fetched is the value of the fallback lookup made for this
   listing (None when no lookup was made) *)
RentType(rent_zestimate, fetched) ==
    IF Truthy(rent_zestimate) THEN "Zestimate"
    ELSE IF Truthy(fetched) THEN "Market Average"
    ELSE "Unknown"

(* lines 76-90 *)
PropertyResult(prop, rent, rent_type) ==
    LET monthly_payment ==
            estimate_mortgage_payment(prop["price"], TaxRate(prop), HoaFee(prop))
    IN  [address |-> prop["address"],
         price |-> prop["price"],
         monthly_payment |-> monthly_payment,
         rent |-> rent,
         rent_type |-> rent_type,
         dscr |-> RoundDiv(rent * 10000, monthly_payment),
         hoa_fee |-> HoaFee(prop),
         tax_rate |-> TaxRate(prop),
         zpid |-> prop["zpid"],
         zillow_url |-> <<"https://www.zillow.com/homedetails/">> \o prop["zpid"]
                           \o <<"_zpid/">>,
         insurance_cost |-> RoundDiv(prop["price"] * 35, 1200),
         bedrooms |-> Get(prop, "bedrooms"),
         bathrooms |-> Get(prop, "bathrooms")]

(* line 94: sorted(results, key=dscr, reverse=True), stable *)
InsertByDscr(x, s) ==
    LET k == Cardinality({n \in 1..Len(s) : s[n].dscr >= x.dscr})
    IN  SubSeq(s, 1, k) \o <<x>> \o SubSeq(s, k + 1, Len(s))

RECURSIVE SortByDscrDesc(_)
SortByDscrDesc(s) ==
    IF s = << >> THEN << >>
    ELSE InsertByDscr(s[Len(s)], SortByDscrDesc(SubSeq(s, 1, Len(s) - 1)))

(* the listings fetch_properties returns (services/zillow.py formats every
   listing with the same keys; zpid is given by the position) *)
MaxProperties == 3

Listing(address, price, bedrooms, rent_zestimate) ==
    [address |-> address, price |-> price, bedrooms |-> bedrooms, bathrooms |-> 2,
     zpid |-> <<"z">>, rentZestimate |-> rent_zestimate, hoaFee |-> None,
     propertyTaxRate |-> None]

ListingShapes ==
    {Listing(<<"A", " ", "7", "8">>, 225000, 3, 1200),
     Listing(<<"B", " ", "7", "8">>, 112500, 3, None),
     Listing(<<"C", " ", "7", "8">>, 112500, 2, None),
     Listing(<<"D", " ", "7", "9">>, 112500, 3, 0),
     Listing(<<"E", " ", "7", "8">>, None, 3, 1200),
     Listing(<<" ">>, 112500, 3, 1200),
     [Listing(<<"F", " ", "7", "8">>, 112500, 3, 900) EXCEPT
          !.hoaFee = 50, !.propertyTaxRate = 200],
     [Listing(<<"G", " ", "7", "8">>, 112500, 3, 900) EXCEPT !.zpid = << >>]}

WithZpid(shape, n) ==
    IF shape.zpid = << >> THEN shape ELSE [shape EXCEPT !.zpid = <<"z">> \o Str(n)]

PropertyLists ==
    {[n \in 1..Len(shapes) |-> WithZpid(shapes[n], n)] :
        shapes \in SeqsUpTo(ListingShapes, MaxProperties)}

SearchRequests ==
    {[city |-> <<"A">>, state |-> <<"T", "X">>, down_payment |-> 20, interest_rate |-> 0,
      min_price |-> lo, max_price |-> hi] : lo \in {0, 200000}, hi \in {0, 200000}}

(* what fetch_average_rent_serpapi returns: None, or int(digits) *)
FallbackRents == {None, 0, 800}

InitSearch ==
    /\ mode = "search"
    /\ pc = "start"
    /\ EngineIdle
    /\ inflight = << >>
    /\ city_neighborhoods_cache = EmptyDict
    /\ served = << >>
    /\ request \in SearchRequests
    /\ next_prop = 0
    /\ properties = << >>
    /\ fallback_rent = EmptyDict
    /\ results = << >>
    /\ sorted_results = << >>

(* lines 26-32 *)
FetchProperties ==
    /\ mode = "search" /\ pc = "start"
    /\ \E fetched \in PropertyLists :
          /\ properties' = fetched
          /\ pc' = IF fetched = << >> THEN "done" ELSE "loop"
    /\ UNCHANGED <<engineVars_but_pc, inflight, city_neighborhoods_cache, served, request,
                   next_prop, fallback_rent, results, sorted_results>>

(* lines 34-96: one iteration of the loop; after the last one the sort and
   the return.  lines 98-100: an exception ends the request with status 500 *)
ProcessProperty ==
    /\ mode = "search" /\ pc = "loop"
    /\ \E prop \in {properties[next_prop + 1]} :
       \E last \in {next_prop + 1 = Len(properties)} :
          IF GetStr(prop, "address") # << >> /\ SplitIsEmpty(prop["address"])
          THEN /\ pc' = "error"
               /\ UNCHANGED <<next_prop, fallback_rent, results, sorted_results>>
          ELSE IF Skipped(prop, request)
          THEN /\ next_prop' = next_prop + 1
               /\ pc' = IF last THEN "done" ELSE "loop"
               /\ sorted_results' = IF last THEN SortByDscrDesc(results) ELSE sorted_results
               /\ UNCHANGED <<fallback_rent, results>>
          ELSE \E key \in {FallbackKey(Zipcode(prop["address"]), prop["bedrooms"])} :
               \E rent_zestimate \in {Get(prop, "rentZestimate")} :
               \E stored \in {IF Truthy(rent_zestimate) THEN rent_zestimate
                              ELSE Get(fallback_rent, key)} :
               \E fetched \in IF Truthy(stored) THEN {None} ELSE FallbackRents :
               \E rent \in {IF Truthy(fetched) THEN fetched ELSE stored} :
               \E found \in {IF Truthy(rent)
                             THEN Append(results,
                                         PropertyResult(prop, rent,
                                                        RentType(rent_zestimate, fetched)))
                             ELSE results} :
                  /\ fallback_rent' = IF Truthy(fetched)
                                      THEN (key :> fetched) @@ fallback_rent
                                      ELSE fallback_rent
                  /\ results' = found
                  /\ next_prop' = next_prop + 1
                  /\ pc' = IF last THEN "done" ELSE "loop"
                  /\ sorted_results' = IF last THEN SortByDscrDesc(found)
                                       ELSE sorted_results
    /\ UNCHANGED <<engineVars_but_pc, inflight, city_neighborhoods_cache, served, request,
                   properties>>

NextSearch == FetchProperties \/ ProcessProperty

SpecSearch == InitSearch /\ [][NextSearch]_vars

----------------------------------------------------------------------------
(* Several get_property_comps calls in flight on the one module-level      *)
(* instance mashvisor_search (line 654).  A frame holds the locals of one  *)
(* call; the instance itself holds api_key, base_url and headers, which no *)
(* method assigns after __init__.  A step of a call is the code from one   *)
(* upstream response to the next outbound call or to the return.           *)

Frame(t) ==
    [pc |-> "start", target_property |-> t, all_comps |-> << >>,
     sorted_neighborhoods |-> << >>, i |-> 0, nb_comps |-> << >>, result |-> << >>,
     responses |-> << >>]

(* lines 290-316 *)
Finish(f, comps) ==
    [f EXCEPT !.all_comps = comps, !.result = final_comps(comps), !.pc = "done"]

(* lines 273-283, 318-322 *)
AfterDirect(f, resp) ==
    LET r == get_long_term_comps_direct(resp, f.target_property)
        comps == Extend(f.all_comps, r.value)
    IN  IF r.raised THEN [f EXCEPT !.result = << >>, !.pc = "done"]
        ELSE IF NeedsSupplement(comps) THEN [f EXCEPT !.all_comps = comps, !.pc = "lookup"]
        ELSE Finish(f, comps)

(* lines 285, 326-354 *)
AfterLookup(f, resp) ==
    LET r == get_city_neighborhoods(resp)
        ranked == RankedNeighborhoods(r, f.target_property)
        p == NextHood(ranked, 0)
    IN  IF r.raised \/ r.value = << >> \/ p = None
        THEN [Finish(f, f.all_comps) EXCEPT !.sorted_neighborhoods = ranked]
        ELSE [f EXCEPT !.sorted_neighborhoods = ranked, !.i = p, !.pc = "listing"]

(* lines 356-379, 286-288 *)
AfterListing(f, resp) ==
    LET hood == f.sorted_neighborhoods[f.i + 1]
        r == _get_traditional_listings_by_neighborhood_enhanced(
                 resp, f.target_property, Get(hood, "distance_miles"))
        found == Extend(f.nb_comps, r.value)
        p == IF r.value # << >> /\ Len(found) >= 15
             THEN None ELSE NextHood(f.sorted_neighborhoods, f.i + 1)
    IN  IF r.raised THEN Finish(f, f.all_comps)
        ELSE IF p = None
        THEN [Finish(f, Extend(f.all_comps, found)) EXCEPT !.nb_comps = found]
        ELSE [f EXCEPT !.nb_comps = found, !.i = p]

(* one step of a call on the response of its pending outbound call *)
Step(f, resp) ==
    [(CASE f.pc = "start" -> AfterDirect(f, resp)
        [] f.pc = "lookup" -> AfterLookup(f, resp)
        [] f.pc = "listing" -> AfterListing(f, resp))
     EXCEPT !.responses = Append(f.responses, resp)]

(* the call run alone against the given upstream responses *)
RECURSIVE Replay(_, _)
Replay(f, responses) ==
    IF responses = << >> \/ f.pc = "done" THEN f
    ELSE Replay(Step(f, Head(responses)), Tail(responses))

MaxCalls == 2

(* the calls in flight are for different target properties *)
ConcurrentTarget(p) ==
    IF p % 2 = 1 THEN Target("Austin", "TX", 3, 4, 1, 1, 100)
    ELSE Target("Austin", "TX", None, None, None, None, None)

ConcurrentDirectResponses ==
    {Failure("http_error"), Ok(<<ValidDirectRecord>>), Ok(BulkBody(5, 0))}

ConcurrentLookupResponses ==
    {Ok(<< >>),
     Ok(<<[id |-> 2, latitude |-> 3, longitude |-> 1],
          [id |-> 1, latitude |-> 1, longitude |-> 1]>>)}

ConcurrentListingResponses ==
    {Ok(<< >>),
     Ok(<<[address |-> <<"a">>, price |-> 100, beds |-> 3, baths |-> 4, sqft |-> 1500]>>),
     Ok(BulkBody(3, 4))}

FrameWithSharedAccumulator(p) == [inflight[p] EXCEPT !.all_comps = inflight[1].all_comps]

(* the locals a step of call p reads *)
FrameOf(p) == inflight[p]

InitConcurrent ==
    /\ mode = "concurrent"
    /\ pc = "running"
    /\ EngineIdle
    /\ inflight = [p \in 1..MaxCalls |-> Frame(ConcurrentTarget(p))]
    /\ city_neighborhoods_cache = EmptyDict
    /\ served = << >>
    /\ request = EmptyDict
    /\ next_prop = 0
    /\ properties = << >>
    /\ fallback_rent = EmptyDict
    /\ results = << >>
    /\ sorted_results = << >>

(* the responses the pending outbound call of a frame can get *)
PendingResponses(f) ==
    CASE f.pc = "start" -> ConcurrentDirectResponses
      [] f.pc = "lookup" -> ConcurrentLookupResponses
      [] f.pc = "listing" -> ConcurrentListingResponses
      [] f.pc = "done" -> {}

(* history of the interleaving: the call that made the last step and how
   often the stepping call changed (counted up to 2) *)
Switched(p) ==
    IF calls = << >> THEN <<[last |-> p, switches |-> 0]>>
    ELSE IF calls[1].last = p THEN calls
    ELSE <<[last |-> p, switches |-> Min(2, calls[1].switches + 1)]>>

StepCall(p) ==
    /\ mode = "concurrent"
    /\ \E resp \in PendingResponses(inflight[p]) :
          /\ inflight' = [inflight EXCEPT ![p] = Step(FrameOf(p), resp)]
          /\ calls' = Switched(p)
    /\ UNCHANGED <<mode, pc, target_property, comp, include, score, all_comps,
                   city_neighborhoods, sorted_neighborhoods, i, nb_comps, result,
                   discovered>>
    /\ UNCHANGED <<city_neighborhoods_cache, served, request, next_prop, properties,
                   fallback_rent, results, sorted_results>>

NextConcurrent == \E p \in 1..MaxCalls : StepCall(p)

SpecConcurrent == InitConcurrent /\ [][NextConcurrent]_vars

----------------------------------------------------------------------------
(* routes/property.py: POST /search-with-cache and POST /property-comps,   *)
(* and the module-level dict city_neighborhoods_cache.  The handlers are   *)
(* coroutines without an await, so the event loop runs each request to its *)
(* end before the next: one action per request.                            *)

Commas(s) == {n \in 1..Len(s) : s[n] = ","}

(* s.split(',')[0] and s.split(',')[1], for s with a comma *)
FirstField(s) == SubSeq(s, 1, (CHOOSE n \in Commas(s) : \A m \in Commas(s) : n <= m) - 1)

SecondField(s) ==
    LET first == CHOOSE n \in Commas(s) : \A m \in Commas(s) : n <= m
        later == {n \in Commas(s) : n > first}
    IN  SubSeq(s, first + 1,
               IF later = {} THEN Len(s)
               ELSE (CHOOSE n \in later : \A m \in later : n <= m) - 1)

(* lines 156-157 *)
LocationCity(location) ==
    IF Commas(location) # {} THEN Strip(FirstField(location)) ELSE location

LocationState(location) ==
    IF Commas(location) # {} THEN Strip(SecondField(location)) ELSE << >>

(* line 168: f"{city.lower()},{state.lower()}" *)
CacheKey(city, state) == Lower(city) \o <<",">> \o Lower(state)

CacheStoreAlways(cache, cache_key, neighborhoods) ==
    (cache_key :> neighborhoods) @@ cache

(* lines 175-176 *)
CacheStore(cache, cache_key, neighborhoods) ==
    IF neighborhoods # << >> THEN (cache_key :> neighborhoods) @@ cache ELSE cache

MaxRequests == 3

Locations ==
    {<<"A", "u", ",", " ", "T", "X">>,
     <<" ", "A", "U", " ", ",", "t", "x", ",", "U", "S">>,
     <<"A", "u">>,
     <<"D", "a", ",", "T", "X">>}

(* what fetch_properties returns to /search-with-cache: services/zillow.py
   gives no city or state key; a listing with them is read first *)
CachePropertyLists ==
    {<< >>,
     <<[address |-> <<"B", " ", "7", "8">>, price |-> 112500]>>,
     <<[address |-> <<"B", " ", "7", "8">>, city |-> <<"D", "a">>, state |-> << >>]>>}

RouteLookupResponses ==
    {Failure("http_error"),
     Ok(<<[id |-> 1, latitude |-> 1, longitude |-> 1]>>),
     Ok(<<[id |-> 2, latitude |-> 3, longitude |-> 1],
          [id |-> 1, latitude |-> 1, longitude |-> 1]>>)}

RouteDirectResponses == {Failure("http_error"), Ok(BulkBody(5, 0))}

RouteListingResponses ==
    {Ok(<< >>),
     Ok(<<[address |-> <<"a">>, price |-> 100, beds |-> 3, baths |-> 4, sqft |-> 1500]>>)}

(* bodies of /property-comps requests *)
PropertyData ==
    {[address |-> <<"1">>, city |-> <<"A", "u">>, state |-> <<"T", "X">>,
      bedrooms |-> 3, bathrooms |-> 4, latitude |-> 1, longitude |-> 1],
     [address |-> <<"1">>, city |-> <<"D", "a">>, state |-> <<"T", "X">>]}

(* lines 106-128: the arguments of get_property_comps; price is not passed *)
RouteTarget(property_data) ==
    [city      |-> GetStr(property_data, "city"),
     state     |-> GetStr(property_data, "state"),
     zipcode   |-> GetStr(property_data, "zip"),
     bedrooms  |-> Get(property_data, "bedrooms"),
     bathrooms |-> Get(property_data, "bathrooms"),
     latitude  |-> Get(property_data, "latitude"),
     longitude |-> Get(property_data, "longitude"),
     price     |-> None]

(* get_property_comps run to its return: every outbound call gets the
   response the upstream gives (listing: one response per neighborhood) *)
RECURSIVE RunCall(_, _, _, _)
RunCall(f, direct, lookup, listing) ==
    IF f.pc = "done" THEN f
    ELSE RunCall(Step(f, CASE f.pc = "start" -> direct
                           [] f.pc = "lookup" -> lookup
                           [] f.pc = "listing" -> listing),
                 direct, lookup, listing)

InitRoutes ==
    /\ mode = "routes"
    /\ pc = "idle"
    /\ EngineIdle
    /\ inflight = << >>
    /\ city_neighborhoods_cache = EmptyDict
    /\ served = << >>
    /\ request = EmptyDict
    /\ next_prop = 0
    /\ properties = << >>
    /\ fallback_rent = EmptyDict
    /\ results = << >>
    /\ sorted_results = << >>

(* lines 145-188 *)
search_properties_with_cache ==
    /\ mode = "routes" /\ Len(served) < MaxRequests
    /\ \E search_data \in {[location |-> l] : l \in Locations} :
       \E fetched \in CachePropertyLists :
       \E city \in {IF fetched # << >> /\ GetStr(fetched[1], "city") # << >>
                    THEN fetched[1]["city"] ELSE LocationCity(search_data.location)} :
       \E state \in {IF fetched # << >> /\ GetStr(fetched[1], "state") # << >>
                     THEN fetched[1]["state"] ELSE LocationState(search_data.location)} :
       \E cache_key \in {CacheKey(city, state)} :
       \E looked \in {fetched # << >> /\ cache_key \notin DOMAIN city_neighborhoods_cache} :
       \E resp \in IF looked THEN RouteLookupResponses ELSE {Ok(<< >>)} :
       \E neighborhoods \in {IF looked THEN get_city_neighborhoods(resp).value ELSE << >>} :
          /\ request' = search_data
          /\ properties' = fetched
          /\ city_neighborhoods_cache' =
                 IF looked
                 THEN CacheStore(city_neighborhoods_cache, cache_key, neighborhoods)
                 ELSE city_neighborhoods_cache
          /\ served' = Append(served,
                 [kind |-> "search-with-cache", key |-> cache_key,
                  cached |-> cache_key \in DOMAIN city_neighborhoods_cache,
                  lookups |-> IF looked THEN 1 ELSE 0,
                  found |-> neighborhoods,
                  supplement |-> FALSE])
    /\ UNCHANGED <<engineVars, inflight, next_prop, fallback_rent, results, sorted_results>>

(* lines 102-143 *)
get_property_comps_route ==
    /\ mode = "routes" /\ Len(served) < MaxRequests
    /\ \E property_data \in PropertyData :
       \E direct \in RouteDirectResponses :
       \E lookup \in ConcurrentLookupResponses :
       \E listing \in RouteListingResponses :
       \E f \in {RunCall(Frame(RouteTarget(property_data)), direct, lookup, listing)} :
       \E cache_key \in {CacheKey(GetStr(property_data, "city"),
                                  GetStr(property_data, "state"))} :
          /\ request' = property_data
          /\ served' = Append(served,
                 [kind |-> "property-comps", key |-> cache_key,
                  cached |-> cache_key \in DOMAIN city_neighborhoods_cache,
                  lookups |-> (IF Len(f.responses) >= 2 THEN 1 ELSE 0)
                              + (IF f.result = << >> THEN 1 ELSE 0),
                  found |-> << >>,
                  supplement |-> NeedsSupplement(
                                     get_long_term_comps_direct(
                                         direct, RouteTarget(property_data)).value)])
    /\ UNCHANGED <<engineVars, inflight, city_neighborhoods_cache, next_prop, properties,
                   fallback_rent, results, sorted_results>>

NextRoutes == search_properties_with_cache \/ get_property_comps_route

SpecRoutes == InitRoutes /\ [][NextRoutes]_vars

----------------------------------------------------------------------------
(* Properties *)

Done == mode = "aggregate" /\ pc = "done"

(* the normalization the specification names: lower-cased, trimmed *)
NormalizedAddress(c) == Strip(Lower(c.address))

(* the normalized addresses of a list of comps, in the order of the list *)
NormalizedAddresses(s) ==
    SubSeq([n \in 1..Len(s) |-> NormalizedAddress(s[n])], 1, Len(s))

Indices(s) == 1..Len(s)

(* position of a candidate in the discovery order *)
DiscoveryIndex(c) ==
    CHOOSE n \in Indices(discovered) :
        /\ discovered[n].comp = c
        /\ \A m \in 1..(n - 1) : discovered[m].comp # c

SortedByScore(s) ==
    \A m, n \in Indices(s) : m < n => s[m].similarity_score >= s[n].similarity_score

(* C1: the list returned by get_property_comps has at most 15 entries,
   whatever the upstream sources answered. *)
C1_AtMostFifteen == Done => Len(result) <= 15

(* C1 witness: a finished call whose deduplicated candidates were more than
   15 and that returned exactly 15. *)
C1_Witness ==
    /\ Done
    /\ Len(unique_comps(all_comps)) > 15
    /\ Len(result) = 15

(* C2: no two returned comps have the same normalized (lower-cased, trimmed)
   address. *)
C2_NoDuplicateAddress ==
    Done => LET key == NormalizedAddresses(result)
            IN  \A m, n \in Indices(result) : m # n => key[m] # key[n]

(* C2 witness: the accumulated comps held two differently written addresses
   with the same normalization, and a list was returned. *)
C2_Witness ==
    /\ Done
    /\ result # << >>
    /\ \E m, n \in Indices(all_comps) :
        /\ all_comps[m].address # all_comps[n].address
        /\ NormalizedAddress(all_comps[m]) = NormalizedAddress(all_comps[n])

(* C3: every returned comp has price > 0 and an address that is non-empty
   after trimming. *)
C3_PositivePriceAndAddress ==
    Done => \A n \in Indices(result) :
                result[n].price > 0 /\ Strip(result[n].address) # << >>

(* C3 witness: upstream delivered a record without address or price and a
   whitespace-only address passed the filter, and a list was returned. *)
C3_Witness ==
    /\ Done
    /\ result # << >>
    /\ \E n \in Indices(all_comps) :
        all_comps[n].address # << >> /\ Strip(all_comps[n].address) = << >>

(* C4: the similarity score is in [0, 100] for every comp and target, and
   so is the similarity_score of every returned comp. *)
C4_ScoreInRange ==
    /\ (mode = "score_test" /\ pc = "scored") => (0 <= score /\ score <= 100)
    /\ Done => \A n \in Indices(result) :
                   0 <= result[n].similarity_score /\ result[n].similarity_score <= 100

(* C4 witness: a scored comp that reaches the upper end of the range with
   all five dimensions contributing. *)
C4_Witness ==
    /\ mode = "score_test" /\ pc = "scored"
    /\ score = 100
    /\ Truthy(Get(comp, "sqft")) /\ Get(comp, "neighborhood_distance_miles") # None

(* C5: a failed source call contributes nothing, does not stop the
   remaining sources from being queried, and does not lose what the other
   sources delivered: after a failed direct call the neighborhood lookup is
   still made, after a failed listing call the next neighborhood with an id
   among the first 8 is still queried, and every candidate a source delivered
   within its cap is in the accumulated list the returned list is built from. *)
C5_FailuresAreZeroResults ==
    Done =>
        /\ calls[1].kind = "direct"
        /\ calls[1].status # "ok" =>
              /\ Len(calls) >= 2 /\ calls[2].kind = "lookup"
              /\ \A n \in Indices(discovered) : discovered[n].src # 0
        /\ \A n \in Indices(calls) :
              (calls[n].kind = "listing" /\ calls[n].status # "ok") =>
                  /\ \A d \in Indices(discovered) : discovered[d].src # calls[n].pos + 1
                  /\ NextHood(sorted_neighborhoods, calls[n].pos + 1) # None =>
                        /\ n < Len(calls)
                        /\ calls[n + 1].kind = "listing"
                        /\ calls[n + 1].pos =
                               NextHood(sorted_neighborhoods, calls[n].pos + 1)
        /\ \A d \in Indices(discovered) :
              Cardinality({e \in Indices(discovered) :
                              discovered[e].src = discovered[d].src}) <= 10
                  => \E n \in Indices(all_comps) : all_comps[n] = discovered[d].comp
        /\ result = final_comps(all_comps)

(* C5 witness: the direct call failed, a listing call failed, a later
   listing call succeeded and a non-empty list was returned. *)
C5_Witness ==
    /\ Done
    /\ calls[1].status # "ok"
    /\ \E m, n \in Indices(calls) :
        /\ m < n
        /\ calls[m].kind = "listing" /\ calls[m].status # "ok"
        /\ calls[n].kind = "listing" /\ calls[n].status = "ok"
    /\ result # << >>

(* C6: when the target lacks city or state, no upstream call is issued (the
   request is rejected before any network work). *)
C6_MissingCityStateRejected ==
    (mode = "aggregate" /\ (target_property.city = "" \/ target_property.state = ""))
        => calls = << >>

(* C7: the returned list is ordered by similarity_score non-increasing, and
   comps with equal scores appear in discovery order (direct source first,
   then neighborhoods in query order, records in upstream order). *)
C7_SortedStable ==
    Done => LET index == SubSeq([n \in Indices(result) |-> DiscoveryIndex(result[n])],
                                1, Len(result))
            IN  \A m, n \in Indices(result) :
                    m < n =>
                        /\ result[m].similarity_score >= result[n].similarity_score
                        /\ result[m].similarity_score = result[n].similarity_score
                               => index[m] < index[n]

(* C7 witness: the returned list has a tie between a direct comp and a
   neighborhood comp, and the final sort moved a later, higher-scoring comp
   ahead of an earlier one. *)
C7_Witness ==
    /\ Done
    /\ \E m, n \in Indices(result) :
        /\ m < n
        /\ result[m].similarity_score = result[n].similarity_score
        /\ result[m].source # result[n].source
    /\ \E m, n \in Indices(all_comps) :
        /\ m < n
        /\ all_comps[m].similarity_score < all_comps[n].similarity_score
        /\ \E k \in Indices(result) : result[k] = all_comps[m]
        /\ \E k \in Indices(result) : result[k] = all_comps[n]

(* C8 (as stated): of two passing candidates with the same normalized
   address the returned list holds the one discovered first, whatever their
   scores. *)
C8_FirstDiscoveredWins ==
    Done => \A n \in Indices(result) : \A d \in Indices(discovered) :
                NormalizedAddress(discovered[d].comp) = NormalizedAddress(result[n])
                    => DiscoveryIndex(result[n]) <= d

(* C8 (amended): deduplication keeps the candidate that comes first in the
   accumulated list, in which the direct comps precede the neighborhood
   comps and each source's comps are in descending score order; among the
   duplicates the direct source delivered, the kept one has the highest
   score. *)
C8_FirstAccumulatedWins ==
    Done =>
        /\ LET accumulated == NormalizedAddresses(all_comps)
               found == NormalizedAddresses([d \in Indices(discovered) |->
                                                discovered[d].comp])
               kept == NormalizedAddresses(result)
           IN  \A n \in Indices(result) :
                  /\ \E k \in Indices(all_comps) :
                        /\ all_comps[k] = result[n]
                        /\ \A j \in 1..(k - 1) : accumulated[j] # kept[n]
                  /\ \A d \in Indices(discovered) :
                        (/\ discovered[d].src = 0
                         /\ result[n].source = DirectSource
                         /\ found[d] = kept[n])
                            => discovered[d].comp.similarity_score
                                   <= result[n].similarity_score
        /\ \A j, k \in Indices(all_comps) :
              (j < k /\ all_comps[j].source = NeighborhoodSource)
                  => all_comps[k].source = NeighborhoodSource

(* C8 witness: two accumulated comps share a normalized address, the one
   that was returned was discovered after the one that was dropped. *)
C8_Witness ==
    /\ Done
    /\ \E j, k \in Indices(all_comps) :
        /\ j < k
        /\ NormalizedAddress(all_comps[j]) = NormalizedAddress(all_comps[k])
        /\ \E n \in Indices(result) : result[n] = all_comps[j]
        /\ DiscoveryIndex(all_comps[j]) > DiscoveryIndex(all_comps[k])

DistinctDiscovered ==
    \A d, e \in Indices(discovered) :
        d # e => NormalizedAddress(discovered[d].comp) # NormalizedAddress(discovered[e].comp)

(* C9 (as stated): when the sources supply 20 passing candidates with
   pairwise distinct normalized addresses, exactly 15 comps are returned,
   sorted by descending score. *)
C9_TwentyGiveFifteen ==
    (Done /\ Len(discovered) = 20 /\ DistinctDiscovered)
        => (Len(result) = 15 /\ SortedByScore(result))

(* C9 (amended): when the direct source supplies the 20 passing candidates
   and their normalized addresses are pairwise distinct and non-empty,
   exactly 15 comps are returned, sorted by descending score. *)
C9_DirectTwentyGiveFifteen ==
    (/\ Done /\ Len(discovered) = 20 /\ DistinctDiscovered
     /\ \A d \in Indices(discovered) :
           discovered[d].src = 0 /\ NormalizedAddress(discovered[d].comp) # << >>)
        => (Len(result) = 15 /\ SortedByScore(result))

(* C9 witness: the direct source supplied 20 such candidates with different
   scores and 15 were returned. *)
C9_Witness ==
    /\ Done /\ Len(discovered) = 20 /\ DistinctDiscovered
    /\ \A d \in Indices(discovered) :
          discovered[d].src = 0 /\ NormalizedAddress(discovered[d].comp) # << >>
    /\ Len(result) = 15
    /\ result[1].similarity_score > result[15].similarity_score

(* the rejection rule of the contract: a count is present when it is not
   None, 0 included *)
ContractRejects(c, t) ==
    \/ GetStr(c, "address") = << >>
    \/ GetD(c, "price", 0) <= 0
    \/ /\ Get(c, "bedrooms") # None /\ Get(t, "bedrooms") # None
       /\ Abs(c["bedrooms"] - t["bedrooms"]) > 1
    \/ /\ Get(c, "bathrooms") # None /\ Get(t, "bathrooms") # None
       /\ Abs(c["bathrooms"] - t["bathrooms"]) > 2
    \/ /\ GetD(c, "price", 0) > 0 /\ Get(t, "price") # None /\ t["price"] > 0
       /\ (2 * c["price"] < t["price"] \/ c["price"] > 2 * t["price"])

(* C10: _should_include_comp returns false exactly when the address is
   empty or missing, the price is <= 0, both bedroom counts (0 included) are
   present and differ by more than 1, both bathroom counts (0 included) are
   present and differ by more than 1, or both prices are positive and their
   ratio is outside [0.5, 2.0]. *)
C10_FilterMatchesContract ==
    (mode = "filter_test" /\ pc = "filtered")
        => (include = ~ContractRejects(comp, target_property))

Scored == mode = "score_test" /\ pc = "scored"

(* the additive scheme of the contract: a field is present when it is not
   None (a count of 0 is a value); price and square feet need both values
   > 0; an absent distance is worth the flat 10 *)
ReferenceBucket(cv, tv, points) ==
    IF cv # None /\ tv # None /\ cv > 0 /\ tv > 0
    THEN IF 10 * Abs(cv - tv) <= tv THEN points[1]
         ELSE IF 10 * Abs(cv - tv) <= 2 * tv THEN points[2]
         ELSE IF 10 * Abs(cv - tv) <= 3 * tv THEN points[3]
         ELSE IF 10 * Abs(cv - tv) <= 5 * tv THEN points[4]
         ELSE 0
    ELSE 0

ReferenceScore(c, t) ==
    LET cb == Get(c, "bedrooms")
        tb == Get(t, "bedrooms")
        ch == Get(c, "bathrooms")
        th == Get(t, "bathrooms")
        d  == Get(c, "neighborhood_distance_miles")
        bed  == IF cb # None /\ tb # None
                THEN (IF Abs(cb - tb) = 0 THEN 25 ELSE IF Abs(cb - tb) = 1 THEN 15
                      ELSE IF Abs(cb - tb) = 2 THEN 5 ELSE 0)
                ELSE 0
        bath == IF ch # None /\ th # None
                THEN (IF Abs(ch - th) = 0 THEN 20 ELSE IF Abs(ch - th) <= 1 THEN 15
                      ELSE IF Abs(ch - th) <= 2 THEN 8 ELSE 0)
                ELSE 0
        dist == IF d = None THEN 10
                ELSE IF d <= 100 THEN 20 ELSE IF d <= 200 THEN 15
                ELSE IF d <= 500 THEN 10 ELSE IF d <= 1000 THEN 5 ELSE 0
    IN  Min(bed + bath
            + ReferenceBucket(Get(c, "price"), Get(t, "price"), <<20, 15, 10, 5>>)
            + ReferenceBucket(Get(c, "sqft"), Get(t, "sqft"), <<15, 12, 8, 4>>)
            + dist, 100)

(* C11: _calculate_similarity_score equals the reference additive scheme
   for every comp and target of the bounded value sets (bedroom and bathroom
   counts >= 0, prices and square feet >= 0, distance >= 0 or absent), each
   dimension applied whenever both sides have the field. *)
C11_ScoreMatchesReference ==
    Scored => score = ReferenceScore(comp, target_property)

AllFieldsMissing(d) ==
    \A k \in {"bedrooms", "bathrooms", "price", "sqft", "neighborhood_distance_miles"} :
        Get(d, k) = None

(* C12 (as stated): a comp and a target that both have every field missing
   score 0. *)
C12_AllMissingScoresZero ==
    (Scored /\ AllFieldsMissing(comp) /\ AllFieldsMissing(target_property))
        => score = 0

(* C12 (amended): a comp and a target that both have every field missing
   score 10, the flat default of the distance dimension; the four other
   dimensions contribute nothing. *)
C12_AllMissingScoresTen ==
    (Scored /\ AllFieldsMissing(comp) /\ AllFieldsMissing(target_property))
        => score = 10

(* C12 witness: the scorer was called with an empty comp and a target whose
   fields are all None. *)
C12_Witness ==
    /\ Scored
    /\ comp = EmptyDict
    /\ AllFieldsMissing(target_property)
    /\ score = 10

(* what the four dimensions other than distance add up to *)
OtherDimensions(c, t) ==
    BedroomPoints(c, t) + BathroomPoints(c, t) + PricePoints(c, t) + SqftPoints(c, t)

(* C13: for every comp without a neighborhood distance the distance
   dimension contributes exactly 10, whatever the other fields of comp and
   target are: the score is the sum of the four other dimensions plus 10
   (directly scored comps, and returned comps of the aggregator). *)
C13_NoDistanceGivesTen ==
    /\ (Scored /\ Get(comp, "neighborhood_distance_miles") = None)
          => score = OtherDimensions(comp, target_property) + 10
    /\ Done => \A n \in Indices(result) :
                   Get(result[n], "neighborhood_distance_miles") = None
                       => result[n].similarity_score
                              = OtherDimensions(result[n], target_property) + 10

(* C13 witness: a comp without distance whose four other dimensions all
   contribute was scored, 10 above their sum. *)
C13_Witness ==
    /\ Scored
    /\ Get(comp, "neighborhood_distance_miles") = None
    /\ BedroomPoints(comp, target_property) > 0
    /\ BathroomPoints(comp, target_property) > 0
    /\ PricePoints(comp, target_property) > 0
    /\ SqftPoints(comp, target_property) > 0
    /\ score = OtherDimensions(comp, target_property) + 10

Ranked == mode = "rank_test" /\ pc = "ranked"

(* the ranking of this run has been made *)
RankingDone == Ranked \/ (mode = "aggregate" /\ Len(calls) >= 2)

HasCoordinates(t) == t.latitude # None /\ t.longitude # None

(* a ranked neighborhood without the distance attached to it *)
Plain(hood) == [k \in DOMAIN hood \ {"distance_miles"} |-> hood[k]]

(* position of a ranked neighborhood in the list that was handed in *)
InputIndex(hood) ==
    CHOOSE n \in Indices(city_neighborhoods) : city_neighborhoods[n] = Plain(hood)

(* the distance of the contract, in thousandths of a mile: infinite when a
   coordinate is missing (None), else the great-circle distance (0 is a
   coordinate); 973955 is the haversine distance from (0, 0) to (10, 10) *)
ContractDistance(lat1, lon1, lat2, lon2) ==
    IF lat1 = None \/ lon1 = None \/ lat2 = None \/ lon2 = None THEN Inf
    ELSE CASE lon1 = lon2 -> (MicroMilesPerUnit * Abs(lat2 - lat1)) \div 1000
           [] <<lat1, lon1, lat2, lon2>> = <<0, 0, 1000, 1000>> -> 973955

HoodDistance(hood) ==
    ContractDistance(target_property.latitude, target_property.longitude,
                     Get(hood, "latitude"), Get(hood, "longitude"))

(* C14: when both target coordinates are present, _find_closest_neighborhoods
   returns the same neighborhoods, each with its distance to the target
   attached (the infinite sentinel exactly when one of its coordinates is
   missing), in ascending order of distance, equal distances in input order;
   neighborhoods with a missing coordinate therefore come after every
   neighborhood with known coordinates. *)
C14_RankedByDistance ==
    (RankingDone /\ HasCoordinates(target_property)) =>
        /\ Len(sorted_neighborhoods) = Len(city_neighborhoods)
        /\ \A n \in Indices(city_neighborhoods) :
              \E k \in Indices(sorted_neighborhoods) :
                  Plain(sorted_neighborhoods[k]) = city_neighborhoods[n]
        /\ \A k \in Indices(sorted_neighborhoods) :
              sorted_neighborhoods[k].distance_miles
                  = HoodDistance(sorted_neighborhoods[k])
        /\ \A m, n \in Indices(sorted_neighborhoods) :
              m < n =>
                 /\ HoodDistance(sorted_neighborhoods[m])
                        <= HoodDistance(sorted_neighborhoods[n])
                 /\ HoodDistance(sorted_neighborhoods[m])
                        = HoodDistance(sorted_neighborhoods[n])
                     => InputIndex(sorted_neighborhoods[m])
                            < InputIndex(sorted_neighborhoods[n])

(* C15: coordinates equal to 0 are present coordinates: ranking
   [A at (10, 10), B at (0, 0)] against the target (0, 0) yields [B, A], the
   distance to B being zero and smaller than the distance to A. *)
C15_ZeroCoordinatesPresent ==
    (/\ Ranked
     /\ city_neighborhoods = ScenarioNeighborhoods
     /\ target_property.latitude = 0 /\ target_property.longitude = 0)
        => /\ Len(sorted_neighborhoods) = 2
           /\ sorted_neighborhoods[1].id = 22
           /\ sorted_neighborhoods[2].id = 21
           /\ sorted_neighborhoods[1].distance_miles = 0
           /\ sorted_neighborhoods[1].distance_miles
                  < sorted_neighborhoods[2].distance_miles

(* C16: when the target latitude or longitude is absent, with or without a
   zip code, _find_closest_neighborhoods returns the neighborhoods in input
   order with no distance attached, and the aggregator queries the first
   neighborhoods (those with an id, among the first 8) of the lookup
   order. *)
C16_NoCoordinatesKeepsOrder ==
    (RankingDone /\ ~HasCoordinates(target_property)) =>
        /\ sorted_neighborhoods = city_neighborhoods
        /\ \A k \in Indices(sorted_neighborhoods) :
              "distance_miles" \notin DOMAIN sorted_neighborhoods[k]
        /\ \A n \in Indices(calls) :
              calls[n].kind = "listing" =>
                 /\ calls[n].pos = NextHood(city_neighborhoods,
                                            IF n = 3 THEN 0 ELSE calls[n - 1].pos + 1)
                 /\ calls[n].hood = city_neighborhoods[calls[n].pos + 1].id

(* C16 witness: a list of four neighborhoods was ranked for a target with a
   zip code and a latitude but no longitude, and came back as it was. *)
C16_Witness ==
    /\ Ranked
    /\ target_property.zipcode = "78701"
    /\ target_property.latitude = 1 /\ target_property.longitude = None
    /\ Len(city_neighborhoods) = 4
    /\ sorted_neighborhoods = city_neighborhoods

(* every passing candidate, in discovery order *)
AllDiscovered == [n \in Indices(discovered) |-> discovered[n].comp]

(* the passing candidates of one source (0 the direct source, p + 1 the
   neighborhood at ranked position p), in upstream order *)
DiscoveredFrom(src) ==
    LET FromSrc(d) == d.src = src
        own == SelectSeq(discovered, FromSrc)
    IN  [n \in Indices(own) |-> own[n].comp]

(* what a source hands to the aggregator: its candidates by descending
   score, the best 15 of the direct source, the best 10 of a neighborhood *)
HandedOver(src) ==
    Take(SortByScoreDesc(DiscoveredFrom(src)), IF src = 0 THEN 15 ELSE 10)

RECURSIVE HandedOverFrom(_)
HandedOverFrom(src) ==
    IF src > Len(sorted_neighborhoods) THEN << >>
    ELSE HandedOver(src) \o HandedOverFrom(src + 1)

(* C17 (as stated): the result is the reference pipeline over every passing
   candidate in discovery order, none dropped per source: deduplicate by
   normalized address keeping the first, stable-sort by score descending,
   take 15. *)
C17_MatchesReferencePipeline ==
    Done => result = Take(SortByScoreDesc(unique_comps(AllDiscovered)), 15)

(* C17 (amended): the result is that pipeline applied to what the sources
   hand over: each source's passing candidates sorted by descending score
   and cut to the best 15 (direct source) or best 10 (each neighborhood),
   concatenated direct source first, then neighborhoods in query order. *)
C17_MatchesCappedPipeline ==
    Done => result = Take(SortByScoreDesc(unique_comps(HandedOverFrom(0))), 15)

(* C17 witness: a call finished whose result differs from the pipeline over
   all candidates in discovery order, a neighborhood having delivered more
   than 10 passing candidates. *)
C17_Witness ==
    /\ Done
    /\ \E src \in 1..Len(sorted_neighborhoods) : Len(DiscoveredFrom(src)) > 10
    /\ result # Take(SortByScoreDesc(unique_comps(AllDiscovered)), 15)
    /\ result = Take(SortByScoreDesc(unique_comps(HandedOverFrom(0))), 15)

(* C18: the outbound calls of one get_property_comps call are, in order,
   exactly one direct-comps call, then at most one neighborhood lookup, then
   at most 8 listing calls at strictly increasing positions of the ranked
   list (so no neighborhood, failed or not, is queried twice). *)
C18_BoundedSequentialCalls ==
    mode = "aggregate" =>
        /\ pc = "start" <=> calls = << >>
        /\ \A n \in Indices(calls) :
              /\ calls[n].kind = "direct" <=> n = 1
              /\ calls[n].kind = "lookup" <=> n = 2
              /\ n >= 3 =>
                    /\ calls[n].kind = "listing"
                    /\ calls[n].pos \in 0..7
                    /\ calls[n].hood = sorted_neighborhoods[calls[n].pos + 1].id
        /\ \A m, n \in Indices(calls) :
              (3 <= m /\ m < n) => calls[m].pos < calls[n].pos
        /\ Len(calls) <= 10

(* C18 witness: a city with more than 8 neighborhoods, ranked by distance
   into another order than the lookup's; 8 listing calls were made, one of
   them failed. *)
C18_Witness ==
    /\ Done
    /\ Len(sorted_neighborhoods) > 8
    /\ Len(calls) = 10
    /\ Plain(sorted_neighborhoods[1]) # city_neighborhoods[1]
    /\ \E n \in Indices(calls) : calls[n].kind = "listing" /\ calls[n].status # "ok"

(* C19: the neighborhood supplement runs if and only if the direct source
   yielded fewer than 5 passing comps: with 5 or more the direct call is the
   only call, with 0 to 4 the neighborhood lookup is the next call. *)
C19_SupplementIffFewerThanFive ==
    (mode = "aggregate" /\ pc # "start") =>
        /\ Len(DiscoveredFrom(0)) >= 5 => (pc = "done" /\ Len(calls) = 1)
        /\ Len(DiscoveredFrom(0)) < 5 =>
              \/ pc = "lookup" /\ Len(calls) = 1
              \/ Len(calls) >= 2 /\ calls[2].kind = "lookup"

(* C19 witness: the direct source yielded exactly 5 passing comps and the
   call returned them without any neighborhood call. *)
C19_Witness ==
    /\ Done
    /\ Len(DiscoveredFrom(0)) = 5
    /\ Len(calls) = 1
    /\ Len(result) = 5

(* C20: no further listing call is made once the comps accumulated across
   step 1 (direct source) and step 2 (neighborhoods queried so far) have
   reached 15. *)
C20_StopAtFifteenAcrossSteps ==
    (mode = "aggregate" /\ pc = "listing") => Len(all_comps) + Len(nb_comps) < 15

(* the price rule of the inclusion filter alone: a comp with an address, the
   price c and no other field *)
FilterAcceptsPrice(c, t) == _should_include_comp([address |-> <<"A">>, price |-> c], t)

AfterDirectCall == mode = "aggregate" /\ Len(calls) = 1

(* the band the claim names *)
RequestedBand(t) ==
    IF Get(t, "price") # None
    THEN [min_price |-> t.price \div 2, max_price |-> (3 * t.price) \div 2]
    ELSE << >>

(* C21 (as stated): with a known target price p the direct source is asked
   for [int(0.5p), int(1.5p)], for no band when the price is unknown, and
   every comp price the filter's price rule accepts lies inside the
   requested band. *)
C21_BandCoversFilter ==
    AfterDirectCall =>
        /\ calls[1].params = RequestedBand(target_property)
        /\ target_property.price # None =>
              \A c \in 1..(2 * target_property.price + 1) :
                  FilterAcceptsPrice(c, target_property)
                      => /\ calls[1].params.min_price <= c
                         /\ c <= calls[1].params.max_price

(* C21 (amended): with a known target price p the direct source is asked
   for [int(0.5p), int(1.5p)], for no band when the price is unknown; every
   price the filter's price rule accepts is at or above the requested
   minimum, but the filter accepts prices up to 2p, so the accepted prices
   above int(1.5p) lie outside the requested band. *)
C21_BandBelowFilterMaximum ==
    AfterDirectCall =>
        /\ calls[1].params = RequestedBand(target_property)
        /\ target_property.price # None =>
              /\ \A c \in 1..(2 * target_property.price + 1) :
                    FilterAcceptsPrice(c, target_property)
                        => /\ calls[1].params.min_price <= c
                           /\ c <= 2 * target_property.price
              /\ \A c \in (calls[1].params.max_price + 1)..(2 * target_property.price) :
                    FilterAcceptsPrice(c, target_property)

(* C21 witness: the direct call was made for a target with an odd price,
   101, and asked for the band [50, 151]. *)
C21_Witness ==
    /\ AfterDirectCall
    /\ target_property.price = 101
    /\ calls[1].params = [min_price |-> 50, max_price |-> 151]

(* the raw records a passing candidate can have been formatted from: those
   of its source whose formatted, scored form the candidate is *)
RawRecordsOf(d) ==
    IF d.src = 0
    THEN {raw \in DirectRecords :
             WithScore(FormatDirect(raw), target_property) = d.comp}
    ELSE {raw \in ListingRecords :
             WithScore(FormatListing(raw, Get(sorted_neighborhoods[d.src],
                                              "distance_miles")),
                       target_property) = d.comp}

(* the normalization of the contract: the explicit field when present, the
   synonym only when it is absent *)
ExplicitFirst(raw, c) ==
    /\ c.rent = GetD(raw, "rent", GetD(raw, "price", 0))
    /\ c.bedrooms = GetD(raw, "bedrooms", GetD(raw, "beds", 0))
    /\ c.bathrooms = GetD(raw, "bathrooms", GetD(raw, "baths", 0))

(* C22: raw records of the direct source and of the listings source are
   normalized the same way: rent, bedrooms and bathrooms come from the
   explicit fields when present and from price, beds, baths only when those
   are absent. *)
C22_ExplicitFieldsPreferred ==
    Done => \A n \in Indices(discovered) :
                \A raw \in RawRecordsOf(discovered[n]) :
                    ExplicitFirst(raw, discovered[n].comp)

(* C24: the target built by get_property_comps has no square footage, so
   the sqft dimension adds nothing to any comp scored during aggregation and
   every returned comp has similarity_score <= 85. *)
C24_NoSqftInTarget ==
    mode = "aggregate" =>
        /\ "sqft" \notin DOMAIN target_property
        /\ \A n \in Indices(discovered) :
              /\ SqftPoints(discovered[n].comp, target_property) = 0
              /\ discovered[n].comp.similarity_score <= 85
        /\ \A n \in Indices(result) : result[n].similarity_score <= 85

(* C24 witness: a returned comp that has a square footage and matches the
   target in every other dimension scores 85. *)
C24_Witness ==
    /\ Done
    /\ \E n \in Indices(result) :
          result[n].sqft > 0 /\ result[n].similarity_score = 85

(* the neighborhood a candidate was fetched through *)
HoodOf(d) == sorted_neighborhoods[d.src]

UsableCoordinates(hood) ==
    Truthy(Get(hood, "latitude")) /\ Truthy(Get(hood, "longitude"))

(* C25: when the target has coordinates, every comp fetched through a
   neighborhood carries a distance, the infinite sentinel when the
   neighborhood has no usable coordinates, and such a comp gets 0 distance
   points; direct-source comps, and neighborhood comps fetched for a target
   without coordinates, carry no distance and get the default 10. *)
C25_SentinelDistanceScoresZero ==
    mode = "aggregate" =>
        \A n \in Indices(discovered) :
            LET d == discovered[n]
            IN  IF d.src > 0 /\ HasCoordinates(target_property)
                THEN /\ "neighborhood_distance_miles" \in DOMAIN d.comp
                     /\ d.comp.neighborhood_distance_miles
                            = Round2(HoodOf(d).distance_miles)
                     /\ ~UsableCoordinates(HoodOf(d)) =>
                            /\ d.comp.neighborhood_distance_miles = Inf
                            /\ d.comp.similarity_score
                                   = OtherDimensions(d.comp, target_property)
                ELSE /\ "neighborhood_distance_miles" \notin DOMAIN d.comp
                     /\ d.comp.similarity_score
                            = OtherDimensions(d.comp, target_property) + 10

(* C25 witness: for a target with coordinates a comp fetched through a
   neighborhood without coordinates was returned, carrying the sentinel. *)
C25_Witness ==
    /\ Done
    /\ HasCoordinates(target_property)
    /\ \E n \in Indices(result) :
          /\ Get(result[n], "neighborhood_distance_miles") = Inf
          /\ result[n].similarity_score > 0

ListingCalls == {n \in Indices(calls) : calls[n].kind = "listing"}

(* the positions a full walk of the ranked list queries *)
QueriedPositions(hoods) ==
    {p \in 0..(Min(max_neighborhoods_to_check, Len(hoods)) - 1) : Truthy(hoods[p + 1].id)}

(* C26: listing calls are made only for neighborhoods with an id at the
   first 8 positions of the ranked list; a position without id is skipped
   and not replaced by a later neighborhood, so a walk that is not stopped
   by the 15-comp early stop makes exactly one call per such position. *)
C26_OnlyFirstEightPositions ==
    mode = "aggregate" =>
        /\ \A n \in ListingCalls : calls[n].pos \in QueriedPositions(sorted_neighborhoods)
        /\ (Done /\ Len(nb_comps) < 15) =>
              {calls[n].pos : n \in ListingCalls} = QueriedPositions(sorted_neighborhoods)

(* C26 witness: 10 neighborhoods, one of the first 8 without id: 7 listing
   calls were made and fewer than 15 comps accumulated. *)
C26_Witness ==
    /\ Done
    /\ Len(sorted_neighborhoods) = 10
    /\ Cardinality(ListingCalls) = 7
    /\ Len(all_comps) < 15

(* C27: the supplement threshold and the early stop count comps before
   deduplication and before whitespace-only addresses are dropped: 5 or
   more passing direct comps mean no lookup, whatever the size of the final
   result, and the walk through the neighborhoods goes on only while fewer
   than 15 neighborhood comps, duplicates included, have been gathered. *)
C27_ThresholdsCountBeforeDedup ==
    mode = "aggregate" =>
        /\ (pc # "start" /\ Len(DiscoveredFrom(0)) >= 5) =>
              /\ Done /\ Len(calls) = 1
              /\ result = final_comps(HandedOver(0))
        /\ pc = "listing" => Len(nb_comps) < 15
        /\ (Done /\ Len(nb_comps) >= 15) =>
              \A n \in ListingCalls :
                  Len(HandedOverFrom(1)) - Len(HandedOverFrom(calls[n].pos + 1)) < 15

(* C27 witness: the direct source yielded 5 passing comps with one
   normalized address; no lookup was made and one comp was returned. *)
C27_Witness ==
    /\ Done
    /\ Len(DiscoveredFrom(0)) = 5
    /\ Len(calls) = 1
    /\ Len(result) = 1

FilterCalled == mode = "filter_test" /\ pc \in {"filtered", "raised"}

NullOrNonNumeric(d, k) == k \in DOMAIN d /\ d[k] \in {None, Text}

(* in a finished call: the source call n raised while filtering, it
   contributed nothing, and the aggregation went on with the next source *)
SourceEmptiedOthersUnaffected(n) ==
    /\ calls[n].status = "ok"
    /\ \A d \in Indices(discovered) :
          discovered[d].src # (IF n = 1 THEN 0 ELSE calls[n].pos + 1)
    /\ n = 1 => (Len(calls) >= 2 /\ calls[2].kind = "lookup")
    /\ (n >= 3 /\ NextHood(sorted_neighborhoods, calls[n].pos + 1) # None) =>
          /\ n < Len(calls)
          /\ calls[n + 1].pos = NextHood(sorted_neighborhoods, calls[n].pos + 1)

RaisingCallsAreCaught ==
    Done =>
        /\ \A n \in Indices(calls) :
              calls[n].filter_raised => SourceEmptiedOthersUnaffected(n)
        /\ result = final_comps(HandedOverFrom(0))

(* C28 (as stated): a record whose price, bedroom count or bathroom count
   is present but null or non-numeric makes filtering raise; the exception
   is caught inside the source's fetch, the source contributes no comp, the
   other sources are unaffected and a list is returned. *)
C28_IllTypedFieldRaises ==
    /\ (/\ FilterCalled
        /\ \/ NullOrNonNumeric(comp, "price")
           \/ NullOrNonNumeric(comp, "bedrooms")
           \/ NullOrNonNumeric(comp, "bathrooms"))
          => pc = "raised"
    /\ RaisingCallsAreCaught

(* C28 (amended): filtering raises for a record with a non-empty address
   whose price is null or non-numeric, and otherwise only for a non-numeric
   bedroom or bathroom count met by a non-zero count of the target; a null
   count, and any field of a record without address, never raises.  When it
   raises, the exception is caught inside the source's fetch, the source
   contributes no comp, the other sources are unaffected and a list is
   returned. *)
C28_RaisingRecordEmptiesSource ==
    /\ FilterCalled =>
          /\ (GetStr(comp, "address") # << >> /\ NullOrNonNumeric(comp, "price"))
                => pc = "raised"
          /\ pc = "raised" =>
                /\ GetStr(comp, "address") # << >>
                /\ \/ NullOrNonNumeric(comp, "price")
                   \/ Get(comp, "bedrooms") = Text /\ Truthy(target_property.bedrooms)
                   \/ Get(comp, "bathrooms") = Text /\ Truthy(target_property.bathrooms)
          /\ (/\ GetStr(comp, "address") # << >>
              /\ GetD(comp, "price", 0) > 0
              /\ Get(comp, "bedrooms") # Text
              /\ Get(comp, "bathrooms") = Text
              /\ Truthy(target_property.bathrooms)
              /\ ~(/\ Truthy(target_property.bedrooms) /\ Truthy(Get(comp, "bedrooms"))
                   /\ Abs(comp["bedrooms"] - target_property.bedrooms) > 1))
                => pc = "raised"
          /\ (/\ GetStr(comp, "address") # << >>
              /\ GetD(comp, "price", 0) > 0
              /\ Get(comp, "bedrooms") = Text
              /\ Truthy(target_property.bedrooms))
                => pc = "raised"
    /\ RaisingCallsAreCaught

(* C28 witness: a listing response held a valid record and a record with a
   non-numeric price; that neighborhood contributed nothing, a later
   neighborhood and the direct source did, and a list with comps of both
   sources was returned. *)
C28_Witness ==
    /\ Done
    /\ \E m, n \in ListingCalls :
          /\ m < n
          /\ calls[m].filter_raised
          /\ ~calls[n].filter_raised
          /\ \E d \in Indices(discovered) : discovered[d].src = calls[n].pos + 1
    /\ \E k \in Indices(result) : result[k].source = DirectSource
    /\ \E k \in Indices(result) : result[k].source = NeighborhoodSource

SearchDone == mode = "search" /\ pc = "done"

(* the fetched listing a returned listing was made from *)
SourceOf(r) == properties[CHOOSE n \in 1..Len(properties) : properties[n].zpid = r.zpid]

(* C30: every listing the DSCR search returns is labelled 'Zestimate' when
   the fetched listing supplied a rent estimate and 'Market Average' when
   its rent came from the fallback lookup, made for this listing or reused
   from the per-request entry of an earlier listing with the same zipcode
   and bedroom count; no returned listing is labelled 'Unknown' *)
C30_RentLabelNamesSource ==
    SearchDone =>
        \A n \in 1..Len(sorted_results) :
            /\ sorted_results[n].rent_type =
                   IF Truthy(SourceOf(sorted_results[n]).rentZestimate)
                   THEN "Zestimate" ELSE "Market Average"
            /\ sorted_results[n].rent_type # "Unknown"

Interleaved == calls # << >> /\ calls[1].switches >= 2

(* C23: aggregation calls are independent: however the steps of the calls
   in flight are interleaved (or run one after the other), every call is,
   at each of its steps and at its return, exactly where it is when run
   alone against the upstream responses it received, so it returns the
   list it returns alone *)
C23_EachCallAsAlone ==
    mode = "concurrent" =>
        \A p \in DOMAIN inflight :
            inflight[p] = Replay(Frame(inflight[p].target_property), inflight[p].responses)

C23_Witness ==
    /\ mode = "concurrent"
    /\ Interleaved
    /\ \A p \in DOMAIN inflight :
          /\ inflight[p].pc = "done"
          /\ Len(inflight[p].responses) >= 3
          /\ inflight[p].result # << >>
    /\ inflight[1].result # inflight[2].result

(* the /search-with-cache requests whose lookup for the key returned a
   non-empty list *)
StoringRequests(key) ==
    {n \in 1..Len(served) :
        /\ served[n].kind = "search-with-cache"
        /\ served[n].key = key
        /\ served[n].lookups = 1
        /\ served[n].found # << >>}

(* C29: the route-level cache only grows: a key (lower-cased "city,state")
   is present only if a lookup for it returned a non-empty list; what a
   request stored is still there, unchanged, after every later request;
   /search-with-cache makes no lookup for a key already present; and the
   comp aggregator makes its own lookup on every supplement, whether or not
   the city is cached *)
C29_CacheOnlyGrows ==
    mode = "routes" =>
        /\ \A key \in DOMAIN city_neighborhoods_cache :
              /\ city_neighborhoods_cache[key] # << >>
              /\ key = Lower(key)
              /\ StoringRequests(key) # {}
        /\ \A n \in 1..Len(served) :
              /\ n \in StoringRequests(served[n].key) =>
                     /\ served[n].key \in DOMAIN city_neighborhoods_cache
                     /\ city_neighborhoods_cache[served[n].key] = served[n].found
              /\ (served[n].kind = "search-with-cache" /\ served[n].cached) =>
                     served[n].lookups = 0
              /\ (served[n].kind = "property-comps" /\ served[n].supplement) =>
                     served[n].lookups >= 1

C29_Witness ==
    /\ mode = "routes"
    /\ Len(served) = 3
    /\ 1 \in StoringRequests(served[1].key)
    /\ served[2].kind = "search-with-cache" /\ served[2].key = served[1].key
    /\ served[2].cached /\ served[2].lookups = 0 /\ properties # << >>
    /\ served[3].kind = "property-comps" /\ served[3].key = served[1].key
    /\ served[3].cached /\ served[3].supplement /\ served[3].lookups = 2
    /\ DOMAIN city_neighborhoods_cache = {served[1].key}

====
